---------------------------- MODULE Spec2Model ----------------------------
(***************************************************************************)
(* A model of the RouterOS API client (package routeros and package        *)
(* proto): the word framing, the sentence reader and writer, the command   *)
(* dispatcher in synchronous and asynchronous mode, and the login          *)
(* handshake.                                                              *)
(*                                                                         *)
(* A word is a sequence of one-character strings.  A byte of a length      *)
(* prefix is a number in 0..255.  A byte stream is a sequence of both.     *)
(***************************************************************************)
EXTENDS Integers, Sequences, FiniteSets, TLC

(***************************************************************************)
(* Bit operations on non-negative integers, as Go's &, | and &^ compute    *)
(* them.                                                                   *)
(***************************************************************************)
RECURSIVE BitAnd(_, _)
BitAnd(a, b) ==
    IF a = 0 \/ b = 0 THEN 0
    ELSE (a % 2) * (b % 2) + 2 * BitAnd(a \div 2, b \div 2)

RECURSIVE BitOr(_, _)
BitOr(a, b) ==
    IF a = 0 THEN b
    ELSE IF b = 0 THEN a
    ELSE (IF a % 2 = 1 \/ b % 2 = 1 THEN 1 ELSE 0) + 2 * BitOr(a \div 2, b \div 2)

\* l & ^m
BitClear(l, m) == l - BitAnd(l, m)

\* byte(x): the low eight bits
Byte(x) == x % 256

(***************************************************************************)
(* The size classes of the length prefix.                                  *)
(***************************************************************************)
Class1 == 128
Class2 == 16384
Class3 == 2097152
Class4 == 268435456
\* the largest length of the reader's test table
TestMax == 268435584

\* proto/writer.go: encodeLength
encodeLengthNoMarker(l) ==
    IF l < Class1 THEN << Byte(l) >>
    ELSE IF l < Class2 THEN << Byte(l \div 256), Byte(l) >>
    ELSE IF l < Class3 THEN << Byte(l \div 65536), Byte(l \div 256), Byte(l) >>
    ELSE IF l < Class4
      THEN << Byte(l \div 16777216), Byte(l \div 65536), Byte(l \div 256), Byte(l) >>
    ELSE << 240, Byte(l \div 16777216), Byte(l \div 65536), Byte(l \div 256), Byte(l) >>

encodeLength(l) ==
    IF l < Class1 THEN << Byte(l) >>
    ELSE IF l < Class2 THEN << BitOr(Byte(l \div 256), 128), Byte(l) >>
    ELSE IF l < Class3
      THEN << BitOr(Byte(l \div 65536), 192), Byte(l \div 256), Byte(l) >>
    ELSE IF l < Class4
      THEN << BitOr(Byte(l \div 16777216), 224), Byte(l \div 65536),
              Byte(l \div 256), Byte(l) >>
    ELSE << 240, Byte(l \div 16777216), Byte(l \div 65536), Byte(l \div 256), Byte(l) >>

(***************************************************************************)
(* The reader.  A stream is read from position pos (bytes consumed so      *)
(* far); only its first avail bytes arrive, and a read that needs more     *)
(* fails.  io.ReadFull of an empty buffer reads nothing and succeeds.      *)
(***************************************************************************)
\* proto/reader.go: readFull
readFull(stream, pos, avail, size) ==
    IF size = 0 THEN [b |-> << >>, err |-> FALSE, pos |-> pos]
    ELSE IF pos + size > avail THEN [b |-> << >>, err |-> TRUE, pos |-> avail]
    ELSE [b |-> SubSeq(stream, pos + 1, pos + size), err |-> FALSE, pos |-> pos + size]

RECURSIVE BigEndian(_, _)
BigEndian(b, num) ==
    IF b = << >> THEN num ELSE BigEndian(Tail(b), num * 256 + Head(b))

\* proto/reader.go: readNumber
readNumber(stream, pos, avail, size) ==
    LET r == readFull(stream, pos, avail, size)
    IN  IF r.err THEN [num |-> -1, err |-> TRUE, pos |-> r.pos]
        ELSE [num |-> BigEndian(r.b, 0), err |-> FALSE, pos |-> r.pos]

\* proto/reader.go: readLength
readLengthNoMask(stream, pos, avail) ==
    LET f == readNumber(stream, pos, avail, 1)
        l == f.num
        more(size, shift) ==
            LET n == readNumber(stream, f.pos, avail, size)
            IN  IF n.err THEN [l |-> -1, err |-> TRUE, pos |-> n.pos]
                ELSE [l |-> l * shift + n.num, err |-> FALSE, pos |-> n.pos]
    IN  IF f.err THEN [l |-> -1, err |-> TRUE, pos |-> f.pos]
        ELSE IF BitAnd(l, 128) = 0 THEN [l |-> l, err |-> FALSE, pos |-> f.pos]
        ELSE IF BitAnd(l, 192) = 128 THEN more(1, 256)
        ELSE IF BitAnd(l, 224) = 192 THEN more(2, 65536)
        ELSE IF BitAnd(l, 240) = 224 THEN more(3, 16777216)
        ELSE IF BitAnd(l, 248) = 240 THEN
            LET n == readNumber(stream, f.pos, avail, 4)
            IN  IF n.err THEN [l |-> -1, err |-> TRUE, pos |-> n.pos]
                ELSE [l |-> n.num, err |-> FALSE, pos |-> n.pos]
        ELSE [l |-> l, err |-> FALSE, pos |-> f.pos]

readLength(stream, pos, avail) ==
    LET f == readNumber(stream, pos, avail, 1)
        l == f.num
        more(size, mask, shift) ==
            LET n == readNumber(stream, f.pos, avail, size)
            IN  IF n.err THEN [l |-> -1, err |-> TRUE, pos |-> n.pos]
                ELSE [l |-> BitOr(BitClear(l, mask) * shift, n.num),
                      err |-> FALSE, pos |-> n.pos]
    IN  IF f.err THEN [l |-> -1, err |-> TRUE, pos |-> f.pos]
        ELSE IF BitAnd(l, 128) = 0 THEN [l |-> l, err |-> FALSE, pos |-> f.pos]
        ELSE IF BitAnd(l, 192) = 128 THEN more(1, 192, 256)
        ELSE IF BitAnd(l, 224) = 192 THEN more(2, 224, 65536)
        ELSE IF BitAnd(l, 240) = 224 THEN more(3, 240, 16777216)
        ELSE IF BitAnd(l, 248) = 240 THEN
            LET n == readNumber(stream, f.pos, avail, 4)
            IN  IF n.err THEN [l |-> -1, err |-> TRUE, pos |-> n.pos]
                ELSE [l |-> n.num, err |-> FALSE, pos |-> n.pos]
        ELSE [l |-> l, err |-> FALSE, pos |-> f.pos]


(***************************************************************************)
(* Words.                                                                  *)
(***************************************************************************)
HasPrefix(b, p) == Len(b) >= Len(p) /\ SubSeq(b, 1, Len(p)) = p

\* the index of the first sep in b at or after from, 0 when there is none
RECURSIVE IndexFrom(_, _, _)
IndexFrom(b, sep, from) ==
    IF from > Len(b) THEN 0
    ELSE IF b[from] = sep THEN from
    ELSE IndexFrom(b, sep, from + 1)

\* bytes.SplitN(b, sep, 2)
SplitN2(b, sep) ==
    LET i == IndexFrom(b, sep, 1)
    IN  IF i = 0 THEN << b >>
        ELSE << SubSeq(b, 1, i - 1), SubSeq(b, i + 1, Len(b)) >>

RECURSIVE Concat(_)
Concat(ss) == IF ss = << >> THEN << >> ELSE Head(ss) \o Concat(Tail(ss))

TagPrefix == << ".", "t", "a", "g", "=" >>

\* proto/writer.go: WriteWord puts the length prefix, then the payload
WriteWord(word) == encodeLength(Len(word)) \o word

(***************************************************************************)
(* Sentences.  Map is a function from keys to values.                      *)
(***************************************************************************)
NoMap == [k \in {} |-> << >>]

NewSentence == [Word |-> << >>, Tag |-> << >>, List |-> << >>, Map |-> NoMap]

Nil == [nil |-> TRUE]

\* proto/reader.go: readWord
readWord(stream, pos, avail) ==
    LET l == readLength(stream, pos, avail)
    IN  IF l.err THEN [b |-> << >>, err |-> TRUE, pos |-> l.pos]
        ELSE readFull(stream, l.pos, avail, l.l)

\* proto/reader.go: setDeadline. A deadline of now + timeout is armed when
\* the flag is set, and the zero time, no deadline, when it is not.
setDeadline(what, flag) == [what |-> what, armed |-> flag]

\* how many bytes of the length follow its first byte l
MoreBytes(l) ==
    IF BitAnd(l, 128) = 0 THEN 0
    ELSE IF BitAnd(l, 192) = 128 THEN 1
    ELSE IF BitAnd(l, 224) = 192 THEN 2
    ELSE IF BitAnd(l, 240) = 224 THEN 3
    ELSE IF BitAnd(l, 248) = 240 THEN 4
    ELSE 0

\* proto/reader.go: the reads of readLength and the deadline of each: the
\* first byte with the caller's flag, the bytes after it with a deadline
readLengthDeadlines(stream, pos, avail, flag) ==
    LET f == readNumber(stream, pos, avail, 1)
    IN  << setDeadline("length", flag) >>
          \o (IF ~f.err /\ MoreBytes(f.num) > 0
                THEN << setDeadline("more", TRUE) >> ELSE << >>)

\* proto/reader.go: the reads of readWord and the deadline of each: those of
\* readLength with the caller's flag, then the payload with a deadline
readWordDeadlines(stream, pos, avail, flag) ==
    LET l == readLength(stream, pos, avail)
    IN  readLengthDeadlines(stream, pos, avail, flag)
          \o (IF l.err THEN << >> ELSE << setDeadline("payload", TRUE) >>)

\* One turn of the loop of ReadSentence on the word b just read: the
\* sentence so far and what the loop does next.
addWordSkipInvalid(sen, b) ==
    IF Len(b) = 0 THEN [sen |-> sen, next |-> "return"]
    ELSE IF sen.Word = << >> THEN [sen |-> [sen EXCEPT !.Word = b], next |-> "continue"]
    ELSE IF HasPrefix(b, TagPrefix)
      THEN [sen |-> [sen EXCEPT !.Tag = SubSeq(b, 6, Len(b))], next |-> "continue"]
    ELSE IF HasPrefix(b, << "=" >>)
      THEN LET t == SplitN2(Tail(b), "=")
               key == t[1]
               value == IF Len(t) = 1 THEN << >> ELSE t[2]
           IN  [sen |-> [sen EXCEPT !.List = Append(@, [Key |-> key, Value |-> value]),
                                    !.Map = (key :> value) @@ @],
                next |-> "continue"]
    ELSE [sen |-> sen, next |-> "continue"]

addWordFirstWins(sen, b) ==
    IF Len(b) = 0 THEN [sen |-> sen, next |-> "return"]
    ELSE IF sen.Word = << >> THEN [sen |-> [sen EXCEPT !.Word = b], next |-> "continue"]
    ELSE IF HasPrefix(b, TagPrefix)
      THEN [sen |-> [sen EXCEPT !.Tag = SubSeq(b, 6, Len(b))], next |-> "continue"]
    ELSE IF HasPrefix(b, << "=" >>)
      THEN LET t == SplitN2(Tail(b), "=")
               key == t[1]
               value == IF Len(t) = 1 THEN << >> ELSE t[2]
           IN  [sen |-> [sen EXCEPT !.List = Append(@, [Key |-> key, Value |-> value]),
                                    !.Map = @ @@ (key :> value)],
                next |-> "continue"]
    ELSE [sen |-> sen, next |-> "invalid"]

addWord(sen, b) ==
    IF Len(b) = 0 THEN [sen |-> sen, next |-> "return"]
    ELSE IF sen.Word = << >> THEN [sen |-> [sen EXCEPT !.Word = b], next |-> "continue"]
    ELSE IF HasPrefix(b, TagPrefix)
      THEN [sen |-> [sen EXCEPT !.Tag = SubSeq(b, 6, Len(b))], next |-> "continue"]
    ELSE IF HasPrefix(b, << "=" >>)
      THEN LET t == SplitN2(Tail(b), "=")
               key == t[1]
               value == IF Len(t) = 1 THEN << >> ELSE t[2]
           IN  [sen |-> [sen EXCEPT !.List = Append(@, [Key |-> key, Value |-> value]),
                                    !.Map = (key :> value) @@ @],
                next |-> "continue"]
    ELSE [sen |-> sen, next |-> "invalid"]

(***************************************************************************)
(* Strings of the dispatcher.                                              *)
(***************************************************************************)
\* strings.Trim(word, " ")
RECURSIVE TrimLeft(_)
TrimLeft(w) == IF w # << >> /\ Head(w) = " " THEN TrimLeft(Tail(w)) ELSE w

RECURSIVE TrimRight(_)
TrimRight(w) ==
    IF w # << >> /\ w[Len(w)] = " " THEN TrimRight(SubSeq(w, 1, Len(w) - 1)) ELSE w

Trim(w) == TrimRight(TrimLeft(w))

Digits == << "0", "1", "2", "3", "4", "5", "6", "7", "8", "9" >>

\* strconv.FormatUint(n, 10)
RECURSIVE FormatUint(_)
FormatUint(n) ==
    IF n < 10 THEN << Digits[n + 1] >>
    ELSE FormatUint(n \div 10) \o << Digits[(n % 10) + 1] >>

\* errors
NoErr == [kind |-> "nil", sen |-> Nil]
errEmptyWord == [kind |-> "errEmptyWord", sen |-> Nil]
errAsyncLoopEnded == [kind |-> "errAsyncLoopEnded", sen |-> Nil]
errAsyncTimeout == [kind |-> "errAsyncTimeout", sen |-> Nil]
DeviceError(sen) == [kind |-> "DeviceError", sen |-> sen]

\* the error of a failed read, write or flush of the transport: each
\* failure is an error of its own
IOError(c, op) == [kind |-> "io", sen |-> Nil, call |-> c, op |-> op]


(***************************************************************************)
(* State.                                                                  *)
(*   len*: the length prefix on its own                                    *)
(*   rd*:  one ReadSentence call on a byte stream                          *)
(*   the rest: one Client, its callers, its background loop, the device    *)
(***************************************************************************)
VARIABLES lenPc, lenIn, lenBuf, lenOut,
          rdPc, rdWords, rdStream, rdAvail, rdPos, rdSen, rdRes,
          rdFlag,     \* the setDeadline argument of ReadSentence
          rdReads,    \* the reads of the call so far, and their deadlines
          async,      \* c.async
          lastTag,    \* c.lastTag
          tags,       \* c.tags: Nil, or a function from tags to calls
          mu,         \* the holder of c.mu
          wlock,      \* the holder of the writer's mutex
          wbuf,       \* the bytes in the writer's buffer
          werr,       \* the writer's err
          wire,       \* the bytes flushed to the transport
          pc,         \* where each caller is
          cmd,        \* the sentence each caller runs
          wi,         \* the words of it written so far
          cur,        \* the call each caller is in
          ret,        \* what each caller's last call returned
          calls,      \* every call begun: its tag, its reply, the device's answer
          rx,         \* the sentences the device has sent, not yet read
          rpos,       \* how many sentences the reader has returned
          loopPc,     \* where the background loop is
          loopSen,    \* the sentence it holds
          loopR,      \* the entry it found
          lgPc,       \* where Login is
          lgUser,     \* its username
          lgPass,     \* its password
          lgRet,      \* what it returned
          closing,    \* c.closing
          conn,       \* the transport: "open", "broken" (its reads and
                      \* writes fail) or "closed"
          connCloses, \* how often c.conn.Close() has been called
          kpc,        \* where each caller of Close is
          kcalls,     \* the calls of Close begun
          timeout,    \* c.timeout, in ticks of the clock
          elapsed     \* the ticks since each waiting caller's timer was set

lenVars == << lenPc, lenIn, lenBuf, lenOut >>
rdVars == << rdPc, rdWords, rdStream, rdAvail, rdPos, rdSen, rdRes, rdFlag,
            rdReads >>
writerVars == << wlock, wbuf, werr, wire >>
callerVars == << pc, cmd, wi, cur, ret >>
loopVars == << loopPc, loopSen, loopR >>
closeVars == << closing, conn, connCloses, kpc, kcalls >>
timeVars == << timeout, elapsed >>
cliVars ==
    << async, lastTag, tags, mu, writerVars, callerVars, calls, rx, rpos, loopVars,
       closeVars, timeVars >>
lgVars == << lgPc, lgUser, lgPass, lgRet >>
otherVars == << lenVars, rdVars, lgVars, closeVars, timeVars >>
\* the same but for the timers
restVars == << lenVars, rdVars, lgVars, closeVars, timeout >>
vars == << lenVars, rdVars, cliVars, lgVars >>

Procs == { "p1", "p2" }
NoProc == "none"

\* the goroutines that call Close
Closers == { "k1", "k2" }

\* a client nobody has closed, on a transport that works, with no timeout
NotClosed ==
    /\ closing = FALSE
    /\ conn = "open"
    /\ connCloses = 0
    /\ kpc = [k \in Closers |-> "idle"]
    /\ kcalls = 0
    /\ timeout = 0
    /\ elapsed = [p \in Procs |-> 0]

\* the parts of the state a specification does not use
LenIdle ==
    /\ lenPc = "off"
    /\ lenIn = 0
    /\ lenBuf = << >>
    /\ lenOut = [l |-> -1, err |-> FALSE, pos |-> 0]

RdIdle ==
    /\ rdPc = "off"
    /\ rdWords = << >>
    /\ rdStream = << >>
    /\ rdAvail = 0
    /\ rdPos = 0
    /\ rdSen = Nil
    /\ rdRes = Nil
    /\ rdFlag = FALSE
    /\ rdReads = << >>

\* what a call returns: its Reply (the call that holds it, 0 for nil) and its error
NoRet == [reply |-> 0, err |-> NoErr]

LgIdle ==
    /\ lgPc = "off"
    /\ lgUser = << >>
    /\ lgPass = << >>
    /\ lgRet = NoErr

CliIdle ==
    /\ async = FALSE
    /\ lastTag = 0
    /\ tags = Nil
    /\ mu = NoProc
    /\ wlock = NoProc
    /\ wbuf = << >>
    /\ werr = NoErr
    /\ wire = << >>
    /\ pc = [p \in Procs |-> "off"]
    /\ cmd = [p \in Procs |-> << >>]
    /\ wi = [p \in Procs |-> 0]
    /\ cur = [p \in Procs |-> 0]
    /\ ret = [p \in Procs |-> NoRet]
    /\ calls = << >>
    /\ rx = << >>
    /\ rpos = 0
    /\ loopPc = "off"
    /\ loopSen = Nil
    /\ loopR = 0
    /\ NotClosed

(***************************************************************************)
(* The length prefix on its own: a length is encoded, the bytes are put    *)
(* on a stream, and the reader decodes them.                               *)
(***************************************************************************)
\* how far around each size-class boundary the lengths are drawn
LenDelta == 3

Around(b) == { l \in (b - LenDelta) .. (b + LenDelta) : l >= 0 }

LenInputs ==
    Around(0) \cup Around(Class1) \cup Around(Class2) \cup Around(Class3)
        \cup Around(Class4) \cup Around(TestMax)

LenInit ==
    /\ lenPc = "encode"
    /\ lenIn \in LenInputs
    /\ lenBuf = << >>
    /\ lenOut = [l |-> -1, err |-> FALSE, pos |-> 0]
    /\ RdIdle
    /\ CliIdle
    /\ LgIdle

\* the writer frames the length: write(encodeLength(len(b)))
LenEncode ==
    /\ lenPc = "encode"
    /\ lenBuf' = encodeLength(lenIn)
    /\ lenPc' = "decode"
    /\ UNCHANGED << lenIn, lenOut, rdVars, cliVars, lgVars >>

\* the reader decodes it
LenDecode ==
    /\ lenPc = "decode"
    /\ lenOut' = readLength(lenBuf, 0, Len(lenBuf))
    /\ lenPc' = "done"
    /\ UNCHANGED << lenIn, lenBuf, rdVars, cliVars, lgVars >>

LenNext == LenEncode \/ LenDecode

SpecLen == LenInit /\ [][LenNext]_vars

SizeClass(l) ==
    IF l < Class1 THEN 1
    ELSE IF l < Class2 THEN 2
    ELSE IF l < Class3 THEN 3
    ELSE IF l < Class4 THEN 4
    ELSE 5

\* the marker bits of the first byte of an encoding of n bytes
MarkerOk(b, n) ==
    CASE n = 1 -> b[1] \div 128 = 0
      [] n = 2 -> b[1] \div 64 = 2
      [] n = 3 -> b[1] \div 32 = 6
      [] n = 4 -> b[1] \div 16 = 14
      [] OTHER -> b[1] = 240

\* C8: the encoding of a length has the number of bytes and the marker
\* bits of its size class, and decoding the encoding gives the length
\* back, consuming all of its bytes.
C8_RoundTrip ==
    /\ lenPc # "encode" =>
          /\ Len(lenBuf) = SizeClass(lenIn)
          /\ MarkerOk(lenBuf, Len(lenBuf))
          /\ \A i \in 1 .. Len(lenBuf) : lenBuf[i] \in 0 .. 255
    /\ lenPc = "done" =>
          /\ ~lenOut.err
          /\ lenOut.l = lenIn
          /\ lenOut.pos = Len(lenBuf)

\* a length of the five-byte class at the upper end has gone the round trip
C8_Witness ==
    /\ lenPc = "done"
    /\ lenIn = TestMax
    /\ lenBuf = << 240, 16, 0, 0, 128 >>
    /\ lenOut.l = TestMax

(***************************************************************************)
(* One ReadSentence call.  The stream holds the framed words of rdWords,   *)
(* of which the first rdAvail bytes arrive before the read fails.          *)
(***************************************************************************)
\* the most words ahead of the closing empty word
MaxWords == 3

WRe == << "!", "r", "e" >>
WTag1 == << ".", "t", "a", "g", "=", "r", "1" >>
WTag2 == << ".", "t", "a", "g", "=", "r", "2" >>
WKV == << "=", "k", "=", "v" >>
WK == << "=", "k" >>
WKVW == << "=", "k", "=", "v", "=", "w" >>
WN == << "=", "n", "=" >>
WBad == << "x" >>

RdWordSet == { WRe, WTag1, WTag2, WKV, WK, WKVW, WN, WBad, << >> }

RdBodies == UNION { [1 .. n -> RdWordSet] : n \in 0 .. MaxWords }

RdInit ==
    /\ rdPc = "call"
    /\ \E body \in RdBodies :
          /\ rdWords = body \o << << >> >>
          /\ rdStream = Concat([i \in 1 .. Len(rdWords) |-> WriteWord(rdWords[i])])
    /\ rdAvail \in 0 .. Len(rdStream)
    /\ rdPos = 0
    /\ rdSen = Nil
    /\ rdRes = Nil
    /\ rdFlag \in BOOLEAN
    /\ rdReads = << >>
    /\ LenIdle
    /\ CliIdle
    /\ LgIdle

\* sen := NewSentence()
ReadSentenceBegin ==
    /\ rdPc = "call"
    /\ rdSen' = NewSentence
    /\ rdPc' = "loop"
    /\ UNCHANGED << rdWords, rdStream, rdAvail, rdPos, rdRes, rdFlag, rdReads,
                    lenVars, cliVars, lgVars >>

\* one turn of the loop: read a word, then return, go on, or fail
ReadSentenceLoop ==
    /\ rdPc = "loop"
    /\ LET w == readWord(rdStream, rdPos, rdAvail)
           a == addWord(rdSen, w.b)
       IN  /\ rdPos' = w.pos
           /\ rdReads' = rdReads \o readWordDeadlines(rdStream, rdPos, rdAvail,
                                                      rdFlag)
           /\ IF w.err
                THEN /\ rdRes' = [sen |-> Nil, err |-> "read"]
                     /\ rdPc' = "done"
                     /\ UNCHANGED rdSen
              ELSE IF a.next = "return"
                THEN /\ rdRes' = [sen |-> a.sen, err |-> "nil"]
                     /\ rdPc' = "done"
                     /\ UNCHANGED rdSen
              ELSE IF a.next = "continue"
                THEN /\ rdSen' = a.sen
                     /\ UNCHANGED << rdRes, rdPc >>
              ELSE /\ rdRes' = [sen |-> Nil, err |-> "parse"]
                   /\ rdPc' = "done"
                   /\ UNCHANGED rdSen
    /\ UNCHANGED << rdWords, rdStream, rdAvail, rdFlag, lenVars, cliVars, lgVars >>

RdNext == ReadSentenceBegin \/ ReadSentenceLoop

SpecRead == RdInit /\ [][RdNext]_vars

(***************************************************************************)
(* ReadSentence on sentences with a word whose length takes two bytes.     *)
(***************************************************************************)
\* a word of the shortest length that has a second length byte
WLong == [i \in 1 .. Class1 |-> IF i \in { 1, 3 } THEN "=" ELSE "k"]

\* the most words ahead of the closing empty word
MaxLongWords == 2

DlWordSet == { WRe, WKV, WLong, << >> }

DlBodies == UNION { [1 .. n -> DlWordSet] : n \in 0 .. MaxLongWords }

DlInit ==
    /\ rdPc = "call"
    /\ \E body \in DlBodies :
          /\ rdWords = body \o << << >> >>
          /\ rdStream = Concat([i \in 1 .. Len(rdWords) |-> WriteWord(rdWords[i])])
    /\ rdAvail \in 0 .. Len(rdStream)
    /\ rdPos = 0
    /\ rdSen = Nil
    /\ rdRes = Nil
    /\ rdFlag \in BOOLEAN
    /\ rdReads = << >>
    /\ LenIdle
    /\ CliIdle
    /\ LgIdle

SpecDeadline == DlInit /\ [][RdNext]_vars

\* the bytes of the first i words of the stream
RdCum(i) == Len(Concat([j \in 1 .. i |-> WriteWord(rdWords[j])]))

RdReadable(i) == RdCum(i) <= rdAvail

IsTagWord(w) == HasPrefix(w, TagPrefix)

IsAttrWord(w) == Len(w) >= 1 /\ w[1] = "="

RdMalformed(i) ==
    i > 1 /\ rdWords[i] # << >> /\ ~IsTagWord(rdWords[i]) /\ ~IsAttrWord(rdWords[i])

RdStops(i) == ~RdReadable(i) \/ rdWords[i] = << >> \/ RdMalformed(i)

\* the word at which the call ends
RdStop ==
    CHOOSE i \in 1 .. Len(rdWords) : RdStops(i) /\ \A j \in 1 .. (i - 1) : ~RdStops(j)

\* the stream is well formed: the call ends at an empty word that arrives
RdWellFormed == RdReadable(RdStop) /\ rdWords[RdStop] = << >>

Range(f) == { f[i] : i \in DOMAIN f }

SetMax(S) == CHOOSE m \in S : \A x \in S : x <= m

\* p is the pair of the attribute word w
PairOf(w, p) ==
    /\ "=" \notin Range(p.Key)
    /\ \/ w = << "=" >> \o p.Key \o << "=" >> \o p.Value
       \/ w = << "=" >> \o p.Key /\ p.Value = << >>

\* sen is the sentence of the words ws, the tag and the pairs taken from
\* the words from index from on
SentenceOf(sen, ws, from) ==
    LET tagIdx == { i \in from .. Len(ws) : IsTagWord(ws[i]) }
        attrs == SelectSeq(SubSeq(ws, from, Len(ws)), IsAttrWord)
        lastOf(k) == SetMax({ j \in 1 .. Len(sen.List) : sen.List[j].Key = k })
    IN  /\ sen.Word = IF ws = << >> THEN << >> ELSE ws[1]
        /\ sen.Tag = IF tagIdx = {} THEN << >>
                     ELSE SubSeq(ws[SetMax(tagIdx)], 6, Len(ws[SetMax(tagIdx)]))
        /\ Len(sen.List) = Len(attrs)
        /\ \A j \in 1 .. Len(attrs) : PairOf(attrs[j], sen.List[j])
        /\ DOMAIN sen.Map = { sen.List[j].Key : j \in 1 .. Len(sen.List) }
        /\ \A k \in DOMAIN sen.Map : sen.Map[k] = sen.List[lastOf(k)].Value

\* C9 as stated: on a well-formed stream the call returns the sentence
\* whose verb is the first word, whose tag is the suffix of the last
\* '.tag=' word of the sentence and whose pairs are those of all its '='
\* words in wire order, the mapping holding the last value of every key.
C9_AsStated ==
    rdPc = "done" /\ RdWellFormed =>
        /\ rdRes.err = "nil"
        /\ rdRes.sen # Nil
        /\ SentenceOf(rdRes.sen, SubSeq(rdWords, 1, RdStop - 1), 1)

\* C9 amended: the first word is the verb whatever its shape; the tag and
\* the pairs come from the '.tag=' and '=' words after the first word.
C9_Parse ==
    rdPc = "done" /\ RdWellFormed =>
        /\ rdRes.err = "nil"
        /\ rdRes.sen # Nil
        /\ rdPos = RdCum(RdStop)
        /\ SentenceOf(rdRes.sen, SubSeq(rdWords, 1, RdStop - 1), 2)

\* the stream "!re", ".tag=r1", "=k=v", "" has been read to its sentence
C9_Witness ==
    /\ rdPc = "done"
    /\ rdWords = << WRe, WTag1, WKV, << >> >>
    /\ rdAvail = Len(rdStream)
    /\ rdRes.err = "nil"
    /\ rdRes.sen = [Word |-> WRe, Tag |-> << "r", "1" >>,
                    List |-> << [Key |-> << "k" >>, Value |-> << "v" >>] >>,
                    Map |-> (<< "k" >> :> << "v" >>)]

\* C10: a call that meets, after the first word, a non-empty word that is
\* neither an attribute nor a tag ends there with a parse error and no
\* sentence; a call whose read of a word fails ends with the read error
\* and no sentence; and no sentence is returned before the call ends.
C10_Malformed ==
    /\ rdPc = "done" /\ RdReadable(RdStop) /\ RdMalformed(RdStop) =>
          /\ rdRes = [sen |-> Nil, err |-> "parse"]
          /\ rdPos = RdCum(RdStop)
    /\ rdPc = "done" /\ ~RdReadable(RdStop) =>
          rdRes = [sen |-> Nil, err |-> "read"]
    /\ rdPc \in {"call", "loop"} => rdRes = Nil

\* a malformed word after a verb and a pair has ended the call
C10_Witness ==
    /\ rdPc = "done"
    /\ rdWords = << WRe, WKV, WBad, << >> >>
    /\ rdAvail = Len(rdStream)
    /\ rdRes = [sen |-> Nil, err |-> "parse"]

(***************************************************************************)
(* The client: callers running RunArgs, the writer they share, the         *)
(* background loop of asynchronous mode, and the device at the other end   *)
(* of the transport.                                                       *)
(***************************************************************************)
\* the most calls that get past the check of their words
MaxCalls == 2
\* the most !re sentences the device sends for one command
MaxRe == 1

WDone == << "!", "d", "o", "n", "e" >>
WTrap == << "!", "t", "r", "a", "p" >>
WFatal == << "!", "f", "a", "t", "a", "l" >>

CmdA == << << "/", "a", " " >> >>
CmdEmpty == << << "/", "a" >>, << >> >>
CmdTab == << << "/", "b" >>, << "\t" >> >>
CmdBlank == << << "/", "b" >>, << " ", " ", " " >> >>

\* the sentences each caller runs
CmdsOf(p) == IF p = "p1" THEN { CmdA, CmdEmpty } ELSE { CmdTab, CmdBlank }

Call(c) == calls[c]

NewCall(p, sentence) ==
    [proc |-> p, cmd |-> sentence, tagNo |-> 0, tag |-> << >>, flushed |-> FALSE,
     dre |-> 0, dtrap |-> FALSE, ddone |-> FALSE, dret |-> Nil,
     torn |-> (async /\ conn = "closed" /\ tags = Nil), reg |-> FALSE,
     Re |-> << >>, Done |-> Nil, err |-> NoErr, closed |-> FALSE]

CliInit ==
    /\ async = FALSE
    /\ lastTag = 0
    /\ tags = Nil
    /\ mu = NoProc
    /\ wlock = NoProc
    /\ wbuf = << >>
    /\ werr = NoErr
    /\ wire = << >>
    /\ pc = [p \in Procs |-> "idle"]
    /\ cmd = [p \in Procs |-> << >>]
    /\ wi = [p \in Procs |-> 0]
    /\ cur = [p \in Procs |-> 0]
    /\ ret = [p \in Procs |-> NoRet]
    /\ calls = << >>
    /\ rx = << >>
    /\ rpos = 0
    /\ loopPc = "off"
    /\ loopSen = Nil
    /\ loopR = 0
    /\ NotClosed

\* the commands an asynchronous client has completed before the calls
\* followed here
PriorTags == 8

\* a client in asynchronous mode that has completed PriorTags commands
CliInitAsync ==
    /\ async = TRUE
    /\ lastTag = PriorTags
    /\ tags = NoMap
    /\ mu = NoProc
    /\ wlock = NoProc
    /\ wbuf = << >>
    /\ werr = NoErr
    /\ wire = << >>
    /\ pc = [p \in Procs |-> "idle"]
    /\ cmd = [p \in Procs |-> << >>]
    /\ wi = [p \in Procs |-> 0]
    /\ cur = [p \in Procs |-> 0]
    /\ ret = [p \in Procs |-> NoRet]
    /\ calls = << >>
    /\ rx = << >>
    /\ rpos = 0
    /\ loopPc = "read"
    /\ loopSen = Nil
    /\ loopR = 0
    /\ NotClosed

Init == (CliInit \/ CliInitAsync) /\ LenIdle /\ RdIdle /\ LgIdle

\* RunArgs: if len(strings.Trim(word, " ")) == 0
IsEmptyWordNoTrim(word) == Len(word) = 0

IsEmptyWord(word) == Len(Trim(word)) = 0

\* Synchronous mode takes one command at a time: the callers see to it.
\* The mode is switched, if at all, ahead of the first command.
MayCall(p) == async \/ \A q \in Procs : pc[q] = "idle"

\* RunArgs, up to BeginSentence: the words are checked
RunArgs(p, sentence) ==
    /\ pc[p] = "idle"
    /\ MayCall(p)
    /\ cmd' = [cmd EXCEPT ![p] = sentence]
    /\ IF \E i \in 1 .. Len(sentence) : IsEmptyWord(sentence[i])
         THEN /\ ret' = [ret EXCEPT ![p] = [reply |-> 0, err |-> errEmptyWord]]
              /\ UNCHANGED << pc, wi, cur, calls >>
         ELSE /\ Len(calls) < MaxCalls
              /\ calls' = Append(calls, NewCall(p, sentence))
              /\ cur' = [cur EXCEPT ![p] = Len(calls) + 1]
              /\ wi' = [wi EXCEPT ![p] = 0]
              /\ ret' = [ret EXCEPT ![p] = NoRet]
              /\ pc' = [pc EXCEPT ![p] = "begin"]
    /\ UNCHANGED << async, lastTag, tags, mu, writerVars, rx, rpos, loopVars,
                    lenVars, rdVars, closeVars, timeVars >>

\* Run, called by a caller of the client
Run(p, sentence) == RunArgs(p, sentence) /\ UNCHANGED lgVars

\* writer.BeginSentence: w.Lock()
LockWriterNot(p) == wlock' = wlock

LockWriter(p) == wlock = NoProc /\ wlock' = p

BeginSentence(p) ==
    /\ pc[p] = "begin"
    /\ LockWriter(p)
    /\ pc' = [pc EXCEPT ![p] = "words"]
    /\ UNCHANGED << async, lastTag, tags, mu, wbuf, werr, wire, cmd, wi, cur, ret,
                    calls, rx, rpos, loopVars, otherVars >>

\* A write of the buffered writer reaches the transport when the buffer is
\* full, a flush always; on a transport that works neither fails, on a
\* closed one every one that reaches it fails.
WriteFails == IF conn = "open" THEN { FALSE } ELSE BOOLEAN
FlushFails == IF conn = "open" THEN { FALSE }
              ELSE IF conn = "closed" THEN { TRUE } ELSE BOOLEAN

\* writer.write: skipped once the writer has an error
writeUnchecked(buf, b) == buf \o b

write(buf, b) == IF werr # NoErr THEN buf ELSE buf \o b

\* RunArgs: c.w.WriteWord(word), one word a step; after the last, the mode
\* decides how the command ends
WriteWords(p) ==
    /\ pc[p] = "words"
    /\ wi[p] < Len(cmd[p])
    /\ \E fails \in WriteFails :
         IF fails /\ werr = NoErr
           THEN /\ werr' = IOError(cur[p], "write")
                /\ UNCHANGED wbuf
           ELSE /\ wbuf' = write(wbuf, WriteWord(cmd[p][wi[p] + 1]))
                /\ UNCHANGED werr
    /\ wi' = [wi EXCEPT ![p] = @ + 1]
    /\ pc' = [pc EXCEPT ![p] = IF wi[p] + 1 < Len(cmd[p]) THEN "words"
                                ELSE IF async THEN "asyncTag" ELSE "syncEnd"]
    /\ UNCHANGED << async, lastTag, tags, mu, wlock, wire, cmd, cur, ret,
                    calls, rx, rpos, loopVars, otherVars >>

\* writer.EndSentence without the deferred unlock on the error path
EndSentenceHeld(c) ==
    LET buf == write(wbuf, WriteWord(<< >>))
    IN  /\ IF werr = NoErr
             THEN \E fails \in FlushFails :
                    IF fails
                      THEN /\ werr' = IOError(c, "flush")
                           /\ wbuf' = buf
                           /\ UNCHANGED << wire, calls >>
                      ELSE /\ wire' = wire \o buf
                           /\ wbuf' = << >>
                           /\ calls' = [calls EXCEPT ![c].flushed = TRUE]
                           /\ UNCHANGED werr
             ELSE UNCHANGED << wire, wbuf, calls, werr >>
        /\ wlock' = IF werr' # NoErr THEN wlock ELSE NoProc

\* writer.EndSentence by the caller in call c: the empty word, the flush,
\* the unlock; w.err is what it returns
EndSentence(c) ==
    LET buf == write(wbuf, WriteWord(<< >>))
    IN  /\ IF werr = NoErr
             THEN \E fails \in FlushFails :
                    IF fails
                      THEN /\ werr' = IOError(c, "flush")
                           /\ wbuf' = buf
                           /\ UNCHANGED << wire, calls >>
                      ELSE /\ wire' = wire \o buf
                           /\ wbuf' = << >>
                           /\ calls' = [calls EXCEPT ![c].flushed = TRUE]
                           /\ UNCHANGED werr
             ELSE UNCHANGED << wire, wbuf, calls, werr >>
        /\ wlock' = NoProc

\* endCommandSync
endCommandSyncNoRead(p) ==
    /\ pc[p] = "syncEnd"
    /\ EndSentence(cur[p])
    /\ ret' = [ret EXCEPT ![p] = [reply |-> cur[p], err |-> werr']]
    /\ pc' = [pc EXCEPT ![p] = "idle"]
    /\ UNCHANGED << async, lastTag, tags, mu, cmd, wi, cur, rx, rpos, loopVars,
                    otherVars >>

endCommandSync(p) ==
    /\ pc[p] = "syncEnd"
    /\ EndSentence(cur[p])
    /\ IF werr' # NoErr
         THEN /\ ret' = [ret EXCEPT ![p] = [reply |-> 0, err |-> werr']]
              /\ pc' = [pc EXCEPT ![p] = "idle"]
         ELSE /\ pc' = [pc EXCEPT ![p] = "readReply"]
              /\ UNCHANGED ret
    /\ UNCHANGED << async, lastTag, tags, mu, cmd, wi, cur, rx, rpos, loopVars,
                    otherVars >>

\* Reply.processSentence: the reply after the sentence, whether the
\* command is over, and the error of the sentence
processSentence(r, sen) ==
    IF sen.Word = WRe
      THEN [Re |-> Append(r.Re, sen), Done |-> r.Done, done |-> FALSE, err |-> NoErr]
    ELSE IF sen.Word = WDone
      THEN [Re |-> r.Re, Done |-> sen, done |-> TRUE, err |-> NoErr]
    ELSE IF sen.Word = WTrap
      THEN [Re |-> r.Re, Done |-> r.Done, done |-> FALSE, err |-> DeviceError(sen)]
    ELSE IF sen.Word = WFatal
      THEN [Re |-> r.Re, Done |-> r.Done, done |-> TRUE, err |-> DeviceError(sen)]
    ELSE [Re |-> r.Re, Done |-> r.Done, done |-> FALSE, err |-> NoErr]

\* a read of a transport that is not working may fail
ReadFails == conn # "open"

\* readReply: one turn of its loop
readReply(p) ==
    /\ pc[p] = "readReply"
    /\ \/ /\ rx # << >>
          /\ rx' = Tail(rx)
          /\ rpos' = rpos + 1
          /\ LET c == cur[p]
                 r == processSentence(Call(c), Head(rx))
                 lastErr == IF r.err # NoErr THEN r.err ELSE Call(c).err
             IN  /\ calls' = [calls EXCEPT ![c].Re = r.Re, ![c].Done = r.Done,
                                           ![c].err = lastErr]
                 /\ IF r.done
                      THEN /\ ret' = [ret EXCEPT ![p] = [reply |-> c, err |-> lastErr]]
                           /\ pc' = [pc EXCEPT ![p] = "idle"]
                      ELSE UNCHANGED << ret, pc >>
       \/ /\ ReadFails
          /\ ret' = [ret EXCEPT ![p] = [reply |-> 0, err |-> IOError(cur[p], "read")]]
          /\ pc' = [pc EXCEPT ![p] = "idle"]
          /\ UNCHANGED << rx, rpos, calls >>
    /\ UNCHANGED << async, lastTag, tags, mu, writerVars, cmd, wi, cur,
                    loopVars, otherVars >>

\* Client.nextTag: the counter after c.lastTag.Add(1), which it returns
nextTagNoAdd == lastTag

nextTag == lastTag + 1

\* endCommandAsync, to the lock of c.mu: the tag and its word
endCommandAsyncTag(p) ==
    /\ pc[p] = "asyncTag"
    /\ lastTag' = nextTag
    /\ LET tag == << "r" >> \o FormatUint(lastTag')
       IN  /\ calls' = [calls EXCEPT ![cur[p]].tagNo = lastTag', ![cur[p]].tag = tag]
           /\ wbuf' = write(wbuf, WriteWord(TagPrefix \o tag))
    /\ pc' = [pc EXCEPT ![p] = "asyncLock"]
    /\ UNCHANGED << async, tags, mu, wlock, werr, wire, cmd, wi, cur, ret, rx, rpos,
                    loopVars, otherVars >>

\* endCommandAsync: c.mu.Lock()
endCommandAsyncLockNone(p) ==
    /\ pc[p] = "asyncLock"
    /\ pc' = [pc EXCEPT ![p] = "asyncEnd"]
    /\ UNCHANGED << async, lastTag, tags, mu, writerVars, cmd, wi, cur, ret, calls,
                    rx, rpos, loopVars, otherVars >>

endCommandAsyncLock(p) ==
    /\ pc[p] = "asyncLock"
    /\ mu = NoProc
    /\ mu' = p
    /\ pc' = [pc EXCEPT ![p] = "asyncEnd"]
    /\ UNCHANGED << async, lastTag, tags, writerVars, cmd, wi, cur, ret, calls, rx,
                    rpos, loopVars, otherVars >>

\* endCommandAsync: c.w.EndSentence() under c.mu
endCommandAsyncEndIgnore(p) ==
    /\ pc[p] = "asyncEnd"
    /\ EndSentence(cur[p])
    /\ pc' = [pc EXCEPT ![p] = "asyncReg"]
    /\ UNCHANGED << ret, mu >>
    /\ UNCHANGED << async, lastTag, tags, cmd, wi, cur, rx, rpos, loopVars,
                    otherVars >>

endCommandAsyncEnd(p) ==
    /\ pc[p] = "asyncEnd"
    /\ EndSentence(cur[p])
    /\ IF werr' # NoErr
         THEN /\ ret' = [ret EXCEPT ![p] = [reply |-> 0, err |-> werr']]
              /\ pc' = [pc EXCEPT ![p] = "idle"]
              /\ mu' = NoProc
         ELSE /\ pc' = [pc EXCEPT ![p] = "asyncReg"]
              /\ UNCHANGED << ret, mu >>
    /\ UNCHANGED << async, lastTag, tags, cmd, wi, cur, rx, rpos, loopVars,
                    otherVars >>

\* endCommandAsync: the entry goes into c.tags, and c.mu is released
endCommandAsyncRegisterOnly(p) ==
    /\ pc[p] = "asyncReg"
    /\ IF tags = Nil
         THEN /\ ret' = [ret EXCEPT ![p] = [reply |-> 0, err |-> errAsyncLoopEnded]]
              /\ pc' = [pc EXCEPT ![p] = "idle"]
              /\ UNCHANGED << tags, calls >>
         ELSE /\ tags' = (Call(cur[p]).tag :> cur[p])
              /\ calls' = [calls EXCEPT ![cur[p]].reg = TRUE]
              /\ pc' = [pc EXCEPT ![p] = "wait"]
              /\ UNCHANGED ret
    /\ mu' = NoProc
    /\ elapsed' = [elapsed EXCEPT ![p] = 0]
    /\ UNCHANGED << async, lastTag, writerVars, cmd, wi, cur, rx, rpos,
                    loopVars, restVars >>

endCommandAsyncRegister(p) ==
    /\ pc[p] = "asyncReg"
    /\ IF tags = Nil
         THEN /\ ret' = [ret EXCEPT ![p] = [reply |-> 0, err |-> errAsyncLoopEnded]]
              /\ pc' = [pc EXCEPT ![p] = "idle"]
              /\ UNCHANGED << tags, calls >>
         ELSE /\ tags' = (Call(cur[p]).tag :> cur[p]) @@ tags
              /\ calls' = [calls EXCEPT ![cur[p]].reg = TRUE]
              /\ pc' = [pc EXCEPT ![p] = "wait"]
              /\ UNCHANGED ret
    /\ mu' = NoProc
    /\ elapsed' = [elapsed EXCEPT ![p] = 0]
    /\ UNCHANGED << async, lastTag, writerVars, cmd, wi, cur, rx, rpos,
                    loopVars, restVars >>

\* newTimeoutTimer: there is a timer when the duration is positive
newTimeoutTimer(d) == d > 0

\* the timer of p's wait has sent on its channel: a full c.timeout has
\* passed since it was set
TimerFiredAtOnce(p) == newTimeoutTimer(timeout)

TimerFired(p) == newTimeoutTimer(timeout) /\ elapsed[p] >= timeout

\* RunArgs: the wait does not look at open
WaitClosedEarly(p) ==
    /\ pc[p] = "wait"
    /\ ~TimerFired(p)
    /\ ret' = [ret EXCEPT ![p] = [reply |-> cur[p], err |-> Call(cur[p]).err]]
    /\ pc' = [pc EXCEPT ![p] = "idle"]
    /\ elapsed' = [elapsed EXCEPT ![p] = 0]
    /\ UNCHANGED << async, lastTag, tags, mu, writerVars, cmd, wi, cur, calls, rx,
                    rpos, loopVars, restVars >>

\* RunArgs: return &a.Reply, a.err
WaitClosedNoErr(p) ==
    /\ pc[p] = "wait"
    /\ Call(cur[p]).closed
    /\ ~TimerFired(p)
    /\ ret' = [ret EXCEPT ![p] = [reply |-> cur[p], err |-> NoErr]]
    /\ pc' = [pc EXCEPT ![p] = "idle"]
    /\ elapsed' = [elapsed EXCEPT ![p] = 0]
    /\ UNCHANGED << async, lastTag, tags, mu, writerVars, cmd, wi, cur, calls, rx,
                    rpos, loopVars, restVars >>

\* RunArgs: the select takes the case that is ready first.  The wait on
\* a.reC ends when the channel is closed; the timer is stopped.
WaitClosed(p) ==
    /\ pc[p] = "wait"
    /\ Call(cur[p]).closed
    /\ ~TimerFired(p)
    /\ ret' = [ret EXCEPT ![p] = [reply |-> cur[p], err |-> Call(cur[p]).err]]
    /\ pc' = [pc EXCEPT ![p] = "idle"]
    /\ elapsed' = [elapsed EXCEPT ![p] = 0]
    /\ UNCHANGED << async, lastTag, tags, mu, writerVars, cmd, wi, cur, calls, rx,
                    rpos, loopVars, restVars >>

\* RunArgs: case <-timeout
WaitTimeoutUnregister(p) ==
    /\ pc[p] = "wait"
    /\ TimerFired(p)
    /\ ret' = [ret EXCEPT ![p] = [reply |-> 0, err |-> errAsyncTimeout]]
    /\ pc' = [pc EXCEPT ![p] = "idle"]
    /\ elapsed' = [elapsed EXCEPT ![p] = 0]
    /\ tags' = [t \in DOMAIN tags \ { Call(cur[p]).tag } |-> tags[t]]
    /\ UNCHANGED << async, lastTag, mu, writerVars, cmd, wi, cur, calls, rx,
                    rpos, loopVars, restVars >>

WaitTimeout(p) ==
    /\ pc[p] = "wait"
    /\ TimerFired(p)
    /\ ret' = [ret EXCEPT ![p] = [reply |-> 0, err |-> errAsyncTimeout]]
    /\ pc' = [pc EXCEPT ![p] = "idle"]
    /\ elapsed' = [elapsed EXCEPT ![p] = 0]
    /\ UNCHANGED << async, lastTag, tags, mu, writerVars, cmd, wi, cur, calls, rx,
                    rpos, loopVars, restVars >>

\* the callers whose timer is running: they wait, their channel is open
\* and the timer has not fired
Timing == { p \in Procs : /\ pc[p] = "wait"
                          /\ newTimeoutTimer(timeout)
                          /\ ~Call(cur[p]).closed
                          /\ elapsed[p] < timeout }

\* the clock ticks
Tick ==
    /\ Timing # { }
    /\ elapsed' = [p \in Procs |-> IF p \in Timing THEN elapsed[p] + 1 ELSE elapsed[p]]
    /\ UNCHANGED << async, lastTag, tags, mu, writerVars, callerVars, calls, rx,
                    rpos, loopVars, restVars >>

\* Client.Async: the table is made and the background loop started
Async ==
    /\ ~async
    /\ calls = << >>
    /\ mu = NoProc
    /\ async' = TRUE
    /\ tags' = NoMap
    /\ loopPc' = "read"
    /\ UNCHANGED << lastTag, mu, writerVars, callerVars, calls, rx, rpos, loopSen,
                    loopR, otherVars >>

\* the background loop: c.r.ReadSentence()
LoopRead ==
    /\ loopPc = "read"
    /\ rx # << >>
    /\ loopSen' = Head(rx)
    /\ rx' = Tail(rx)
    /\ rpos' = rpos + 1
    /\ loopPc' = "lookup"
    /\ UNCHANGED << async, lastTag, tags, mu, writerVars, callerVars, calls,
                    loopR, otherVars >>

\* the background loop: the entry of the sentence's tag, under c.mu
LoopLookup ==
    /\ loopPc = "lookup"
    /\ mu = NoProc
    /\ IF tags # Nil /\ loopSen.Tag \in DOMAIN tags
         THEN /\ loopR' = tags[loopSen.Tag]
              /\ loopPc' = "process"
         ELSE /\ loopPc' = "read"
              /\ UNCHANGED loopR
    /\ UNCHANGED << async, lastTag, tags, mu, writerVars, callerVars, calls, rx,
                    rpos, loopSen, otherVars >>

\* the background loop: the sentence goes to the entry's reply, and the
\* caller, if it is still in its select, starts a new window; a caller
\* that has left does not hold the loop up
LoopProcess ==
    /\ loopPc = "process"
    /\ LET r == processSentence(Call(loopR), loopSen)
       IN  /\ calls' = [calls EXCEPT ![loopR].Re = r.Re, ![loopR].Done = r.Done,
                                     ![loopR].err = IF r.err # NoErr THEN r.err ELSE @]
           /\ loopPc' = IF r.done THEN "delete" ELSE "read"
    /\ elapsed' = [p \in Procs |->
                     IF cur[p] = loopR /\ p \in Timing THEN 0 ELSE elapsed[p]]
    /\ UNCHANGED << async, lastTag, tags, mu, writerVars, callerVars, rx, rpos,
                    loopSen, loopR, restVars >>

\* the background loop: the entry leaves the table, under c.mu
LoopDelete ==
    /\ loopPc = "delete"
    /\ mu = NoProc
    /\ tags' = IF tags = Nil THEN Nil
               ELSE [t \in DOMAIN tags \ { loopSen.Tag } |-> tags[t]]
    /\ loopPc' = "close"
    /\ UNCHANGED << async, lastTag, mu, writerVars, callerVars, calls, rx, rpos,
                    loopSen, loopR, otherVars >>

\* the background loop: the entry's channel is closed
LoopClose ==
    /\ loopPc = "close"
    /\ calls' = [calls EXCEPT ![loopR].closed = TRUE]
    /\ loopPc' = "read"
    /\ UNCHANGED << async, lastTag, tags, mu, writerVars, callerVars, rx, rpos,
                    loopSen, loopR, otherVars >>

\* the background loop: c.r.ReadSentence() fails
LoopReadFail ==
    /\ loopPc = "read"
    /\ ReadFails
    /\ loopPc' = "closeTags"
    /\ UNCHANGED << async, lastTag, tags, mu, writerVars, callerVars, calls, rx,
                    rpos, loopSen, loopR, otherVars >>

\* the error the loop's failed read returned
LoopErr == IOError(0, "read")

\* the calls that have an entry in the table
Entries == IF tags = Nil THEN { } ELSE { tags[t] : t \in DOMAIN tags }

\* closeTags, under c.mu: every entry is given the error and its channel is
\* closed, and the table is set to nil; the loop returns
LoopCloseTags ==
    /\ loopPc = "closeTags"
    /\ mu = NoProc
    /\ calls' = [c \in DOMAIN calls |->
                   IF c \in Entries
                     THEN [calls[c] EXCEPT !.err = LoopErr, !.closed = TRUE]
                     ELSE calls[c]]
    /\ tags' = Nil
    /\ loopPc' = "ended"
    /\ UNCHANGED << async, lastTag, mu, writerVars, callerVars, rx, rpos,
                    loopSen, loopR, otherVars >>

(***************************************************************************)
(* Close, client.go: the flag under c.mu, then the transport.              *)
(***************************************************************************)
MaxCloses == 2

\* Close: c.mu.Lock()
CloseLock(k) ==
    /\ kpc[k] = "idle"
    /\ kcalls < MaxCloses
    /\ mu = NoProc
    /\ mu' = k
    /\ kpc' = [kpc EXCEPT ![k] = "locked"]
    /\ kcalls' = kcalls + 1
    /\ UNCHANGED << async, lastTag, tags, writerVars, callerVars, calls, rx, rpos,
                    loopVars, lenVars, rdVars, lgVars, closing, conn, connCloses,
                    timeVars >>

\* Close: the flag is read and, if not set, set; c.mu.Unlock()
CloseFlagAlways(k) ==
    /\ kpc[k] = "locked"
    /\ closing' = TRUE
    /\ kpc' = [kpc EXCEPT ![k] = "conn"]
    /\ mu' = NoProc
    /\ UNCHANGED << async, lastTag, tags, writerVars, callerVars, calls, rx, rpos,
                    loopVars, lenVars, rdVars, lgVars, conn, connCloses, kcalls,
                    timeVars >>

CloseFlag(k) ==
    /\ kpc[k] = "locked"
    /\ IF closing
         THEN /\ kpc' = [kpc EXCEPT ![k] = "idle"]
              /\ UNCHANGED closing
         ELSE /\ closing' = TRUE
              /\ kpc' = [kpc EXCEPT ![k] = "conn"]
    /\ mu' = NoProc
    /\ UNCHANGED << async, lastTag, tags, writerVars, callerVars, calls, rx, rpos,
                    loopVars, lenVars, rdVars, lgVars, conn, connCloses, kcalls,
                    timeVars >>

\* Close: c.conn.Close()
CloseConn(k) ==
    /\ kpc[k] = "conn"
    /\ conn' = "closed"
    /\ connCloses' = connCloses + 1
    /\ kpc' = [kpc EXCEPT ![k] = "idle"]
    /\ UNCHANGED << async, lastTag, tags, mu, writerVars, callerVars, calls, rx,
                    rpos, loopVars, lenVars, rdVars, lgVars, closing, kcalls,
                    timeVars >>

\* the transport stops working: the device stalls, the link drops
Break ==
    /\ conn = "open"
    /\ conn' = "broken"
    /\ UNCHANGED << async, lastTag, tags, mu, writerVars, callerVars, calls, rx,
                    rpos, loopVars, lenVars, rdVars, lgVars, closing, connCloses,
                    kpc, kcalls, timeVars >>

(***************************************************************************)
(* The device answers a command it has received with !re sentences, at     *)
(* most one !trap, and a closing !done, each carrying the tag of the       *)
(* command.  The sentences of different commands interleave freely.        *)
(***************************************************************************)
DevSentence(word, c, key, k) ==
    LET value == << Digits[c + 1], Digits[k + 1] >>
    IN  [Word |-> word, Tag |-> Call(c).tag,
         List |-> << [Key |-> key, Value |-> value] >>,
         Map |-> (key :> value)]

DevRe(c) ==
    /\ conn # "closed"
    /\ Call(c).flushed /\ ~Call(c).ddone /\ ~Call(c).dtrap
    /\ Call(c).dre < MaxRe
    /\ rx' = Append(rx, DevSentence(WRe, c, << "i" >>, Call(c).dre + 1))
    /\ calls' = [calls EXCEPT ![c].dre = @ + 1]
    /\ UNCHANGED << async, lastTag, tags, mu, writerVars, callerVars, rpos,
                    loopVars, otherVars >>

DevTrap(c) ==
    /\ conn # "closed"
    /\ Call(c).flushed /\ ~Call(c).ddone /\ ~Call(c).dtrap
    /\ rx' = Append(rx, DevSentence(WTrap, c, << "m" >>, 0))
    /\ calls' = [calls EXCEPT ![c].dtrap = TRUE]
    /\ UNCHANGED << async, lastTag, tags, mu, writerVars, callerVars, rpos,
                    loopVars, otherVars >>

DevDone(c) ==
    /\ conn # "closed"
    /\ Call(c).flushed /\ ~Call(c).ddone
    /\ rx' = Append(rx, DevSentence(WDone, c, << "d" >>, 0))
    /\ calls' = [calls EXCEPT ![c].ddone = TRUE]
    /\ UNCHANGED << async, lastTag, tags, mu, writerVars, callerVars, rpos,
                    loopVars, otherVars >>

Next ==
    \/ \E p \in Procs : \E sentence \in CmdsOf(p) : Run(p, sentence)
    \/ \E p \in Procs : BeginSentence(p)
    \/ \E p \in Procs : WriteWords(p)
    \/ \E p \in Procs : endCommandSync(p)
    \/ \E p \in Procs : readReply(p)
    \/ \E p \in Procs : endCommandAsyncTag(p)
    \/ \E p \in Procs : endCommandAsyncLock(p)
    \/ \E p \in Procs : endCommandAsyncEnd(p)
    \/ \E p \in Procs : endCommandAsyncRegister(p)
    \/ \E p \in Procs : WaitClosed(p)
    \/ Async
    \/ LoopRead
    \/ LoopLookup
    \/ LoopProcess
    \/ LoopDelete
    \/ LoopClose
    \/ \E c \in 1 .. Len(calls) : DevRe(c)
    \/ \E c \in 1 .. Len(calls) : DevTrap(c)
    \/ \E c \in 1 .. Len(calls) : DevDone(c)

Spec == Init /\ [][Next]_vars

(***************************************************************************)
(* The same client with callers of Close and a transport that may stop     *)
(* working.                                                                *)
(***************************************************************************)
FaultCmdsOf(p) == IF p = "p1" THEN { CmdA } ELSE { CmdTab }

FaultNext ==
    \/ \E p \in Procs : \E sentence \in FaultCmdsOf(p) : Run(p, sentence)
    \/ \E p \in Procs : BeginSentence(p)
    \/ \E p \in Procs : WriteWords(p)
    \/ \E p \in Procs : endCommandSync(p)
    \/ \E p \in Procs : readReply(p)
    \/ \E p \in Procs : endCommandAsyncTag(p)
    \/ \E p \in Procs : endCommandAsyncLock(p)
    \/ \E p \in Procs : endCommandAsyncEnd(p)
    \/ \E p \in Procs : endCommandAsyncRegister(p)
    \/ \E p \in Procs : WaitClosed(p)
    \/ LoopRead
    \/ LoopLookup
    \/ LoopProcess
    \/ LoopDelete
    \/ LoopClose
    \/ LoopReadFail
    \/ LoopCloseTags
    \/ \E k \in Closers : CloseLock(k)
    \/ \E k \in Closers : CloseFlag(k)
    \/ \E k \in Closers : CloseConn(k)
    \/ Break
    \/ \E c \in 1 .. Len(calls) : DevRe(c)
    \/ \E c \in 1 .. Len(calls) : DevTrap(c)
    \/ \E c \in 1 .. Len(calls) : DevDone(c)

SpecFault == Init /\ [][FaultNext]_vars

\* the tag of a command completed before the calls followed here
StrayTag == << "r" >> \o FormatUint(PriorTags)

\* the device sends a late sentence of a command that is over, ahead of
\* everything else it sends
DevStray ==
    /\ async
    /\ conn # "closed"
    /\ rx = << >>
    /\ rpos = 0
    /\ rx' = << [Word |-> WRe, Tag |-> StrayTag, List |-> << >>, Map |-> << >>] >>
    /\ UNCHANGED << async, lastTag, tags, mu, writerVars, callerVars, calls, rpos,
                    loopVars, otherVars >>

StrayInit == CliInitAsync /\ LenIdle /\ RdIdle /\ LgIdle

StrayNext ==
    \/ \E p \in Procs : \E sentence \in FaultCmdsOf(p) : Run(p, sentence)
    \/ \E p \in Procs : BeginSentence(p)
    \/ \E p \in Procs : WriteWords(p)
    \/ \E p \in Procs : endCommandAsyncTag(p)
    \/ \E p \in Procs : endCommandAsyncLock(p)
    \/ \E p \in Procs : endCommandAsyncEnd(p)
    \/ \E p \in Procs : endCommandAsyncRegister(p)
    \/ \E p \in Procs : WaitClosed(p)
    \/ LoopRead
    \/ LoopLookup
    \/ LoopProcess
    \/ LoopDelete
    \/ LoopClose
    \/ LoopReadFail
    \/ LoopCloseTags
    \/ Break
    \/ \E c \in 1 .. Len(calls) : DevRe(c)
    \/ \E c \in 1 .. Len(calls) : DevTrap(c)
    \/ \E c \in 1 .. Len(calls) : DevDone(c)
    \/ DevStray

SpecStray == StrayInit /\ [][StrayNext]_vars

\* the loop's goroutine runs its teardown, whoever holds c.mu releases it,
\* and a caller whose channel is closed leaves its select
FaultFairness ==
    /\ WF_vars(LoopCloseTags)
    /\ \A p \in Procs : WF_vars(endCommandAsyncEnd(p))
    /\ \A p \in Procs : WF_vars(endCommandAsyncRegister(p))
    /\ \A p \in Procs : WF_vars(WaitClosed(p))
    /\ \A k \in Closers : WF_vars(CloseFlag(k))

SpecFaultFair == SpecFault /\ FaultFairness

(***************************************************************************)
(* The client in asynchronous mode with a clock: the callers' waits time   *)
(* out.                                                                    *)
(***************************************************************************)
\* c.timeout, in ticks
TimeoutTicks == 2

TimeoutInit ==
    /\ async = TRUE
    /\ lastTag = PriorTags
    /\ tags = NoMap
    /\ mu = NoProc
    /\ wlock = NoProc
    /\ wbuf = << >>
    /\ werr = NoErr
    /\ wire = << >>
    /\ pc = [p \in Procs |-> "idle"]
    /\ cmd = [p \in Procs |-> << >>]
    /\ wi = [p \in Procs |-> 0]
    /\ cur = [p \in Procs |-> 0]
    /\ ret = [p \in Procs |-> NoRet]
    /\ calls = << >>
    /\ rx = << >>
    /\ rpos = 0
    /\ loopPc = "read"
    /\ loopSen = Nil
    /\ loopR = 0
    /\ closing = FALSE
    /\ conn = "open"
    /\ connCloses = 0
    /\ kpc = [k \in Closers |-> "idle"]
    /\ kcalls = 0
    /\ timeout \in { 0, TimeoutTicks }
    /\ elapsed = [p \in Procs |-> 0]
    /\ LenIdle /\ RdIdle /\ LgIdle

TimeoutNext ==
    \/ \E p \in Procs : \E sentence \in FaultCmdsOf(p) : Run(p, sentence)
    \/ \E p \in Procs : BeginSentence(p)
    \/ \E p \in Procs : WriteWords(p)
    \/ \E p \in Procs : endCommandAsyncTag(p)
    \/ \E p \in Procs : endCommandAsyncLock(p)
    \/ \E p \in Procs : endCommandAsyncEnd(p)
    \/ \E p \in Procs : endCommandAsyncRegister(p)
    \/ \E p \in Procs : WaitClosed(p)
    \/ \E p \in Procs : WaitTimeout(p)
    \/ Tick
    \/ LoopRead
    \/ LoopLookup
    \/ LoopProcess
    \/ LoopDelete
    \/ LoopClose
    \/ \E c \in 1 .. Len(calls) : DevRe(c)
    \/ \E c \in 1 .. Len(calls) : DevTrap(c)
    \/ \E c \in 1 .. Len(calls) : DevDone(c)

SpecTimeout == TimeoutInit /\ [][TimeoutNext]_vars

\* the loop's goroutine keeps running, and so does a caller that holds
\* c.mu
TimeoutFairness ==
    /\ WF_vars(LoopRead)
    /\ WF_vars(LoopLookup)
    /\ WF_vars(LoopProcess)
    /\ WF_vars(LoopDelete)
    /\ WF_vars(LoopClose)
    /\ \A p \in Procs : WF_vars(endCommandAsyncEnd(p))
    /\ \A p \in Procs : WF_vars(endCommandAsyncRegister(p))

SpecTimeoutFair == SpecTimeout /\ TimeoutFairness

(***************************************************************************)
(* What the device sends for call c, and what a call has been given.       *)
(***************************************************************************)
ReOf(c, k) == DevSentence(WRe, c, << "i" >>, k)
TrapOf(c) == DevSentence(WTrap, c, << "m" >>, 0)
DoneOf(c) == DevSentence(WDone, c, << "d" >>, 0)

\* the sentence was sent in answer to call c
SentFor(sen, c) == sen.List[1].Value[1] = Digits[c + 1]

\* the calls that have returned with a Reply
Returned == { c \in 1 .. Len(calls) : \E p \in Procs : pc[p] = "idle" /\ ret[p].reply = c }

RetOf(c) == ret[Call(c).proc]

\* the Reply of call c is the answer to call c, whole and in order
OwnReply(c) ==
    /\ Call(c).Re = [k \in 1 .. Call(c).dre |-> ReOf(c, k)]
    /\ Call(c).ddone
    /\ Call(c).Done = DoneOf(c)

AllSpaces(w) == \A i \in 1 .. Len(w) : w[i] = " "

AllWhitespace(w) == \A i \in 1 .. Len(w) : w[i] \in { " ", "\t" }

\* the step is a call by p of RunArgs with a sentence that has a word of
\* the kind Bad, and the call fails with the empty-word error and changes
\* nothing of the client
RejectedUnchanged(p, Bad(_)) ==
    pc[p] = "idle" /\ cmd'[p] # cmd[p] /\ (\E i \in 1 .. Len(cmd'[p]) : Bad(cmd'[p][i]))
        => /\ ret'[p] = [reply |-> 0, err |-> errEmptyWord]
           /\ pc'[p] = "idle"
           /\ UNCHANGED << async, lastTag, tags, mu, wlock, wbuf, werr, wire, calls,
                           rx, rpos >>

\* C1 as stated: a call with an empty or all-whitespace word fails with
\* the empty-word error and leaves the writer's lock, the writer's buffer,
\* the wire, the tag counter and the table as they were.
C1_AsStated == [][\A p \in Procs : RejectedUnchanged(p, AllWhitespace)]_vars

\* C1 amended: the same of a call with a word that is empty or consists of
\* the space character only.
C1_EmptyWord == [][\A p \in Procs : RejectedUnchanged(p, AllSpaces)]_vars

\* a call with a word of three spaces has failed while another caller is
\* waiting for its reply
C1_Witness ==
    /\ cmd["p2"] = CmdBlank
    /\ ret["p2"] = [reply |-> 0, err |-> errEmptyWord]
    /\ pc["p1"] = "wait"
    /\ wire # << >>
    /\ lastTag = PriorTags + 1

\* the value of a string of decimal digits
RECURSIVE DecimalValue(_)
DecimalValue(ds) ==
    IF ds = << >> THEN 0
    ELSE 10 * DecimalValue(SubSeq(ds, 1, Len(ds) - 1))
         + (CHOOSE d \in 0 .. 9 : Digits[d + 1] = ds[Len(ds)])

Tagged == { c \in 1 .. Len(calls) : Call(c).tag # << >> }

\* C2: the tags given out are pairwise distinct, the numbers given out are
\* the last ones the counter has counted, and each tag is "r" followed by
\* the decimal digits of its number.
C2_Tags ==
    /\ \A c, d \in Tagged : c # d => Call(c).tag # Call(d).tag
    /\ { Call(c).tagNo : c \in Tagged }
          = (lastTag - Cardinality(Tagged) + 1) .. lastTag
    /\ \A c \in Tagged :
          LET tag == Call(c).tag
          IN  /\ tag[1] = "r"
              /\ Len(tag) >= 2
              /\ \A i \in 2 .. Len(tag) : \E d \in 1 .. 10 : Digits[d] = tag[i]
              /\ Len(tag) > 2 => tag[2] # "0"
              /\ DecimalValue(Tail(tag)) = Call(c).tagNo

\* two callers hold the tags r9 and r10 at once
C2_Witness ==
    /\ Len(calls) = 2
    /\ Call(1).proc # Call(2).proc
    /\ { Call(1).tag, Call(2).tag } = { << "r", "9" >>, << "r", "1", "0" >> }
    /\ pc[Call(1).proc] = "wait"
    /\ pc[Call(2).proc] = "wait"

SentenceBytes(c) ==
    Concat([i \in 1 .. Len(Call(c).cmd) |-> WriteWord(Call(c).cmd[i])])
      \o (IF Call(c).tag = << >> THEN << >> ELSE WriteWord(TagPrefix \o Call(c).tag))
      \o WriteWord(<< >>)

IsPrefix(a, b) == Len(a) <= Len(b) /\ SubSeq(b, 1, Len(a)) = a

\* bytes is the sentences of the calls in S, whole, one after another
RECURSIVE WholeSentences(_, _)
WholeSentences(bytes, S) ==
    IF S = {} THEN bytes = << >>
    ELSE \E c \in S :
            /\ IsPrefix(SentenceBytes(c), bytes)
            /\ WholeSentences(SubSeq(bytes, Len(SentenceBytes(c)) + 1, Len(bytes)),
                              S \ { c })

Flushed == { c \in 1 .. Len(calls) : Call(c).flushed }

\* C4: the wire holds the sentences flushed, each whole (its words, its
\* .tag= word in asynchronous mode, its empty word) and none inside
\* another; the writer's buffer holds words of the one sentence being
\* written, by the caller that holds the writer.
C4_WholeSentences ==
    /\ WholeSentences(wire, Flushed)
    /\ wlock = NoProc => wbuf = << >>
    /\ \A p \in Procs : wlock = p =>
          /\ pc[p] \in { "words", "syncEnd", "asyncTag", "asyncLock", "asyncEnd" }
          /\ IsPrefix(wbuf, SentenceBytes(cur[p]))
          /\ ~Call(cur[p]).flushed

\* the second caller's sentence is on the wire ahead of the first's
C4_Witness ==
    /\ Len(calls) = 2
    /\ Call(1).proc # Call(2).proc
    /\ Call(1).tag = << "r", "1", "0" >>
    /\ wire = SentenceBytes(2) \o SentenceBytes(1)

\* the sentences still unread that were sent in answer to call c
Unread(c) == { i \in 1 .. Len(rx) : SentFor(rx[i], c) }

\* C5: a call that returns with a Reply after the device has answered it
\* with a !trap and a !done returns the device error that holds the !trap
\* sentence and its attributes; none of the sentences sent in answer to it
\* is left unread, its !done included; and any other call that returns a
\* Reply returns the answer to its own command.
C5_Trap ==
    \A c \in Returned :
        Call(c).dtrap =>
            /\ RetOf(c).err = DeviceError(TrapOf(c))
            /\ RetOf(c).err.sen.Map = TrapOf(c).Map
            /\ Call(c).ddone
            /\ Unread(c) = {}
            /\ \A d \in Returned \ { c } : OwnReply(d)

\* in synchronous mode the second command has got its own reply after the
\* first one got a !trap
C5_Witness ==
    /\ ~async
    /\ Len(calls) = 2
    /\ Call(1).dtrap /\ Call(1).err = DeviceError(TrapOf(1))
    /\ ~Call(2).dtrap /\ Call(2).dre = 1
    /\ 2 \in Returned
    /\ ret[Call(2).proc].err = NoErr

\* the sentences the device has sent in answer to the calls up to c
SentUpTo(c) ==
    LET n(e) == Call(e).dre + (IF Call(e).dtrap THEN 1 ELSE 0)
                  + (IF Call(e).ddone THEN 1 ELSE 0)
        sum[e \in 0 .. c] == IF e = 0 THEN 0 ELSE sum[e - 1] + n(e)
    IN  sum[c]

HexLowerDigits ==
    << "0", "1", "2", "3", "4", "5", "6", "7", "8", "9",
       "a", "b", "c", "d", "e", "f" >>

HexUpperDigits ==
    << "0", "1", "2", "3", "4", "5", "6", "7", "8", "9",
       "A", "B", "C", "D", "E", "F" >>

\* hex.fromHexChar: the value of a digit, -1 for any other character
fromHexChar(ch) ==
    IF \E i \in 1 .. 16 : HexLowerDigits[i] = ch
      THEN (CHOOSE i \in 1 .. 16 : HexLowerDigits[i] = ch) - 1
      ELSE IF \E i \in 1 .. 16 : HexUpperDigits[i] = ch
             THEN (CHOOSE i \in 1 .. 16 : HexUpperDigits[i] = ch) - 1
             ELSE -1

\* hex.DecodeString
DecodeString(str) ==
    IF \/ Len(str) % 2 = 1
       \/ \E i \in 1 .. Len(str) : fromHexChar(str[i]) = -1
      THEN [ok |-> FALSE, bytes |-> << >>]
      ELSE [ok |-> TRUE,
            bytes |-> [i \in 1 .. Len(str) \div 2 |->
                         16 * fromHexChar(str[2 * i - 1]) + fromHexChar(str[2 * i])]]

\* fmt's %x of a byte slice: two lower-case digits a byte
SprintfHex(bytes) ==
    Concat([i \in 1 .. Len(bytes) |->
              << HexLowerDigits[(bytes[i] \div 16) + 1],
                 HexLowerDigits[(bytes[i] % 16) + 1] >>])

\* the bytes of a string of the characters used here
Ord(ch) ==
    CASE ch = "p" -> 112
      [] ch = "q" -> 113
      [] ch = "u" -> 117
      [] OTHER -> 63

Bytes(str) == [i \in 1 .. Len(str) |-> Ord(str[i])]

DigestSize == 16

RECURSIVE Mix(_, _, _)
Mix(msg, j, acc) ==
    IF j > Len(msg) THEN acc
    ELSE Mix(msg, j + 1, (31 * acc + msg[j] + j) % 256)

\* md5: h.Write of the message, h.Sum(nil); sixteen bytes that depend on
\* every byte of the message and on its length
Md5Sum(msg) ==
    [i \in 1 .. DigestSize |-> (Mix(msg, 1, (7 * i + Len(msg)) % 256) + 13 * i) % 256]

\* Client.challengeResponse
challengeResponseNoPrefix(cha, password) ==
    SprintfHex(Md5Sum(<< 0 >> \o Bytes(password) \o cha))

challengeResponse(cha, password) ==
    << "0", "0" >> \o SprintfHex(Md5Sum(<< 0 >> \o Bytes(password) \o cha))

WLogin == << "/", "l", "o", "g", "i", "n" >>
NamePrefix == << "=", "n", "a", "m", "e", "=" >>
PasswordPrefix == << "=", "p", "a", "s", "s", "w", "o", "r", "d", "=" >>
ResponsePrefix == << "=", "r", "e", "s", "p", "o", "n", "s", "e", "=" >>
KeyRet == << "r", "e", "t" >>

errInvalidRet == [kind |-> "RouterOS: /login: invalid ret (challenge) hex string received",
                  sen |-> Nil]
errNoRet == [kind |-> "RouterOS: /login: no ret (challenge) received", sen |-> Nil]
\* a nil *Sentence is dereferenced: the goroutine panics
panicNilDone == [kind |-> "panic: nil pointer dereference", sen |-> Nil]

LoginUsers == { << "u" >> }
LoginPasswords == { << "p" >>, << "p", "q" >> }

\* Login runs in the caller p1
LoginProc == "p1"

LoginInit ==
    /\ CliInit \/ CliInitAsync
    /\ LenIdle
    /\ RdIdle
    /\ lgPc = "start"
    /\ lgUser \in LoginUsers
    /\ lgPass \in LoginPasswords
    /\ lgRet = NoErr

\* Login: r, err := c.Run("/login", "=name="+username, "=password="+password)
LoginRun ==
    /\ lgPc = "start"
    /\ RunArgs(LoginProc, << WLogin, NamePrefix \o lgUser, PasswordPrefix \o lgPass >>)
    /\ lgPc' = "first"
    /\ UNCHANGED << lgUser, lgPass, lgRet >>

LoginStay(err) ==
    /\ lgRet' = err
    /\ lgPc' = "done"
    /\ UNCHANGED << lgUser, lgPass, cliVars, lenVars, rdVars >>

\* Login, from the return of the first Run up to the call of the second
LoginChallenge ==
    /\ lgPc = "first"
    /\ pc[LoginProc] = "idle"
    /\ LET err == ret[LoginProc].err
           r == Call(ret[LoginProc].reply)
       IN  IF err # NoErr THEN LoginStay(err)
           ELSE IF r.Done = Nil THEN LoginStay(panicNilDone)
           ELSE IF KeyRet \notin DOMAIN r.Done.Map
             THEN IF r.Done # Nil THEN LoginStay(NoErr) ELSE LoginStay(errNoRet)
           ELSE LET b == DecodeString(r.Done.Map[KeyRet])
                IN  IF ~b.ok THEN LoginStay(errInvalidRet)
                    ELSE /\ RunArgs(LoginProc,
                                    << WLogin, NamePrefix \o lgUser,
                                       ResponsePrefix \o
                                         challengeResponse(b.bytes, lgPass) >>)
                         /\ lgPc' = "second"
                         /\ UNCHANGED << lgUser, lgPass, lgRet >>

\* Login, from the return of the second Run
LoginReturn ==
    /\ lgPc = "second"
    /\ pc[LoginProc] = "idle"
    /\ lgRet' = ret[LoginProc].err
    /\ lgPc' = "done"
    /\ UNCHANGED << lgUser, lgPass, cliVars, lenVars, rdVars >>

\* The challenges the device may send as the ret of its !done: the text,
\* and the bytes it stands for where it is a hex string.
Challenges ==
    { [text |-> << "0", "a" >>, hex |-> TRUE, bytes |-> << 10 >>],
      [text |-> << "A", "b", "0", "1" >>, hex |-> TRUE, bytes |-> << 171, 1 >>],
      [text |-> << >>, hex |-> TRUE, bytes |-> << >>],
      [text |-> << "0", "a", "f" >>, hex |-> FALSE, bytes |-> << >>],
      [text |-> << "0", "g" >>, hex |-> FALSE, bytes |-> << >>],
      [text |-> << "z", "1" >>, hex |-> FALSE, bytes |-> << >>] }

\* the device ends a command with a !done that carries a ret
DevChallenge(c, ch) ==
    /\ conn # "closed"
    /\ Call(c).flushed /\ ~Call(c).ddone
    /\ rx' = Append(rx, [Word |-> WDone, Tag |-> Call(c).tag,
                         List |-> << [Key |-> KeyRet, Value |-> ch.text] >>,
                         Map |-> (KeyRet :> ch.text)])
    /\ calls' = [calls EXCEPT ![c].ddone = TRUE, ![c].dret = ch]
    /\ UNCHANGED << async, lastTag, tags, mu, writerVars, callerVars, rpos,
                    loopVars, otherVars >>

LoginNext ==
    \/ LoginRun
    \/ LoginChallenge
    \/ LoginReturn
    \/ BeginSentence(LoginProc)
    \/ WriteWords(LoginProc)
    \/ endCommandSync(LoginProc)
    \/ readReply(LoginProc)
    \/ endCommandAsyncTag(LoginProc)
    \/ endCommandAsyncLock(LoginProc)
    \/ endCommandAsyncEnd(LoginProc)
    \/ endCommandAsyncRegister(LoginProc)
    \/ WaitClosed(LoginProc)
    \/ LoopRead
    \/ LoopLookup
    \/ LoopProcess
    \/ LoopDelete
    \/ LoopClose
    \/ \E c \in 1 .. Len(calls) : DevRe(c)
    \/ \E c \in 1 .. Len(calls) : DevTrap(c)
    \/ \E c \in 1 .. Len(calls) : DevDone(c)
    \/ \E c \in 1 .. Len(calls) : \E ch \in Challenges : DevChallenge(c, ch)

SpecLogin == LoginInit /\ [][LoginNext]_vars

(***************************************************************************)
(* Login against a Run taken by its result: a reply and an error, the      *)
(* reply with or without a terminal sentence.                              *)
(***************************************************************************)
\* what a Run may hand back: the terminal sentence of its reply, nil
\* included, and its error
RunOutcomes ==
    { [Done |-> Nil, err |-> NoErr],
      [Done |-> Nil, err |-> IOError(0, "read")],
      [Done |-> [Word |-> WDone, Tag |-> << >>, List |-> << >>, Map |-> NoMap],
       err |-> NoErr] }
    \cup { [Done |-> [Word |-> WDone, Tag |-> << >>,
                      List |-> << [Key |-> KeyRet, Value |-> ch.text] >>,
                      Map |-> (KeyRet :> ch.text)],
            err |-> NoErr] : ch \in Challenges }

\* the Run that p has begun returns
RunReturns(p) ==
    /\ pc[p] = "begin"
    /\ \E o \in RunOutcomes :
          /\ calls' = [calls EXCEPT ![cur[p]].Done = o.Done, ![cur[p]].err = o.err]
          /\ ret' = [ret EXCEPT ![p] = [reply |-> IF o.err = NoErr THEN cur[p] ELSE 0,
                                        err |-> o.err]]
    /\ pc' = [pc EXCEPT ![p] = "idle"]
    /\ UNCHANGED << async, lastTag, tags, mu, writerVars, cmd, wi, cur, rx, rpos,
                    loopVars, otherVars >>

LoginRetNext ==
    \/ LoginRun
    \/ RunReturns(LoginProc)
    \/ LoginChallenge
    \/ LoginReturn

SpecLoginRet == LoginInit /\ [][LoginRetNext]_vars

(***************************************************************************)
(* Login, against what the device answered to the first command.           *)
(***************************************************************************)
\* Login has seen the outcome of its first command
LoginDecided == lgPc \in { "second", "done" }

\* the device let the first command succeed
FirstSucceeded == ~Call(1).dtrap

\* the challenge in the terminal sentence of the first command, if any
FirstRet == Call(1).dret

FollowUps == Len(calls) - 1

IsResponse(resp, password, cha) ==
    /\ Len(resp) = 2 + 2 * DigestSize
    /\ resp[1] = "0" /\ resp[2] = "0"
    /\ \A i \in 3 .. Len(resp) : \E d \in 1 .. 16 : HexLowerDigits[d] = resp[i]
    /\ SubSeq(resp, 3, Len(resp)) = SprintfHex(Md5Sum(<< 0 >> \o Bytes(password) \o cha))

\* C7: Login issues a follow-up login command exactly when the first
\* command succeeded and its terminal sentence carries a ret that is a
\* valid hex string, and then exactly one, made of /login, the name and a
\* response that is "00" and the 32 lower-case hex digits of the MD5 digest
\* of 0x00, the password and the decoded challenge.  With a terminal
\* sentence without ret Login returns nil and issues no follow-up; with a
\* failed first command or a ret that is not hex it returns an error and
\* issues no follow-up.
C7_Login ==
    /\ ~LoginDecided => Len(calls) <= 1
    /\ LoginDecided =>
          /\ FollowUps \in { 0, 1 }
          /\ FollowUps = 1 <=> (FirstSucceeded /\ FirstRet # Nil /\ FirstRet.hex)
          /\ FollowUps = 1 =>
                /\ Len(Call(2).cmd) = 3
                /\ Call(2).cmd[1] = WLogin
                /\ Call(2).cmd[2] = NamePrefix \o lgUser
                /\ HasPrefix(Call(2).cmd[3], ResponsePrefix)
                /\ IsResponse(SubSeq(Call(2).cmd[3], Len(ResponsePrefix) + 1,
                                     Len(Call(2).cmd[3])),
                              lgPass, FirstRet.bytes)
          /\ (FirstSucceeded /\ FirstRet = Nil) =>
                lgPc = "done" /\ lgRet = NoErr
          /\ (~FirstSucceeded \/ (FirstRet # Nil /\ ~FirstRet.hex)) =>
                lgPc = "done" /\ lgRet # NoErr

\* Login has answered a two-byte challenge written with upper-case digits
\* and returned nil
C7_Witness ==
    /\ lgPc = "done"
    /\ lgRet = NoErr
    /\ FollowUps = 1
    /\ FirstRet # Nil /\ Len(FirstRet.bytes) = 2


(***************************************************************************)
(* Close.                                                                  *)
(***************************************************************************)
ClosersIdle == \A k \in Closers : kpc[k] = "idle"

\* the transport has been closed at most once, and only with the flag set;
\* once every call of Close has returned it has been closed exactly once
CloseOnceState ==
    /\ connCloses <= 1
    /\ connCloses = 1 => closing /\ conn = "closed"
    /\ (kcalls > 0 /\ ClosersIdle) => closing /\ connCloses = 1

\* the flag is never reset, and a call that finds it set returns having
\* changed nothing but the lock it took
CloseOnceStep ==
    /\ closing => closing'
    /\ \A k \in Closers :
         (kpc[k] = "locked" /\ closing /\ kpc'[k] # "locked") =>
           /\ kpc'[k] = "idle"
           /\ UNCHANGED << closing, conn, connCloses, tags, writerVars, calls >>

\* C11: over any calls of Close, one after another or at once, the flag is
\* set once and never reset, the transport is closed exactly once, and a
\* call that finds the flag set changes nothing.
C11_CloseOnce == [](CloseOnceState) /\ [][CloseOnceStep]_vars

\* two calls of Close have returned while a command was under way
C11_Witness ==
    /\ kcalls = 2
    /\ ClosersIdle
    /\ connCloses = 1
    /\ \E p \in Procs : pc[p] # "idle"


(***************************************************************************)
(* Commands issued after teardown.                                         *)
(***************************************************************************)
\* caller p returns from a call it began in asynchronous mode after the
\* transport was closed and the table cleared
LateReturn(p) ==
    /\ pc[p] # "idle"
    /\ pc'[p] = "idle"
    /\ Call(cur[p]).torn

\* C12 as stated: such a call fails with the "async loop ended" error and
\* leaves no entry.
C12_AsStated ==
    [][\A p \in Procs :
         LateReturn(p) =>
           /\ ret'[p] = [reply |-> 0, err |-> errAsyncLoopEnded]
           /\ tags' = Nil]_vars

\* C12 amended: such a call fails with the writer's I/O error, the write
\* of its sentence to the closed transport having failed before the table
\* is looked at, and leaves no entry; it never gets to wait.
C12_AfterClose ==
    [][\A p \in Procs :
         /\ LateReturn(p) =>
              /\ ret'[p].reply = 0
              /\ ret'[p].err = werr'
              /\ werr'.kind = "io"
              /\ pc[p] = "asyncEnd"
              /\ ~Call(cur[p]).flushed'
              /\ tags' = Nil
         /\ (pc[p] # "idle" /\ Call(cur[p]).torn) => pc'[p] \notin { "asyncReg", "wait" }]_vars

\* a command begun after Close and teardown has failed with the error of
\* its own flush
C12_Witness ==
    \E p \in Procs :
      /\ pc[p] = "idle"
      /\ cur[p] # 0
      /\ Call(cur[p]).torn
      /\ ret[p].err = IOError(cur[p], "flush")


(***************************************************************************)
(* The writer's error.                                                     *)
(***************************************************************************)
\* the step in which the caller that holds the writer ends its sentence
EndsSentence(p) == wlock = p /\ wlock' = NoProc

\* once the writer has an error it keeps it, and nothing more is written
\* or flushed
StickyStep ==
    werr # NoErr => werr' = werr /\ UNCHANGED << wbuf, wire >>

\* EndSentence returns the writer's error, which ends the call, and no
\* error when there is none, when the sentence is on the wire
EndSentenceReturns(p) ==
    EndsSentence(p) =>
      IF werr' # NoErr
        THEN pc'[p] = "idle" /\ ret'[p] = [reply |-> 0, err |-> werr']
        ELSE pc'[p] # "idle" /\ Call(cur[p]).flushed'

\* C13 as stated: the error EndSentence returns is one of a write or flush
\* of the sentence it ends.
C13_AsStated ==
    [][/\ StickyStep
       /\ \A p \in Procs :
            /\ EndSentenceReturns(p)
            /\ (EndsSentence(p) /\ werr' # NoErr) => werr'.call = cur[p]]_vars

\* C13 amended: the error EndSentence returns is the first one of any write
\* or flush of the writer, of this sentence or of one before it; a new
\* error is one of the sentence being written.
C13_Sticky ==
    [][/\ StickyStep
       /\ \A p \in Procs :
            /\ EndSentenceReturns(p)
            /\ (wlock = p /\ werr = NoErr /\ werr' # NoErr) =>
                 werr'.call = cur[p] /\ werr'.op \in { "write", "flush" }]_vars

\* the second command has been refused with the error of a write of the
\* first
C13_Witness ==
    \E p \in Procs :
      /\ pc[p] = "idle"
      /\ cur[p] = 2
      /\ ret[p].err = IOError(1, "write")


(***************************************************************************)
(* C14: the asynchronous wait timeout                                      *)
(***************************************************************************)
\* p leaves the wait of RunArgs in this step
LeavesWait(p) == pc[p] = "wait" /\ pc'[p] = "idle"

\* the loop hands a sentence to the entry of call c in this step
Dispatches(c) == loopPc = "process" /\ loopPc' # "process" /\ loopR = c

\* p's window is still running: it waits, nothing has completed its
\* command and less than c.timeout has passed since the window began
WindowOpen(p) ==
    /\ pc[p] = "wait"
    /\ timeout > 0
    /\ ~Call(cur[p]).closed
    /\ elapsed[p] < timeout

\* C14: with a positive timeout, Run fails with the async-wait-timeout
\* error and no reply exactly when a full window passes with no sentence for
\* its tag and no completion: it returns that error only with the whole
\* window elapsed, it returns the reply only when the command completed
\* before the window ran out, the window advances only while nothing
\* happens for the tag and starts again at every sentence of the tag; with
\* no timeout configured the wait never times out; the error is not the
\* transport's.
C14_TimeoutStep ==
    \A p \in Procs :
        /\ LeavesWait(p) =>
              IF ret'[p].err = errAsyncTimeout
              THEN /\ timeout > 0
                   /\ elapsed[p] = timeout
                   /\ ret'[p].reply = 0
                   /\ ret'[p].err.kind # "io"
              ELSE /\ Call(cur[p]).closed
                   /\ ret'[p].reply = cur[p]
                   /\ timeout > 0 => elapsed[p] < timeout
        /\ elapsed'[p] > elapsed[p] =>
              /\ WindowOpen(p)
              /\ elapsed'[p] = elapsed[p] + 1
              /\ calls' = calls
        /\ (WindowOpen(p) /\ Dispatches(cur[p])) => elapsed'[p] = 0

C14_Timeout == [](\A p \in Procs : elapsed[p] <= timeout) /\ [][C14_TimeoutStep]_vars

\* a caller has timed out after its window was restarted by a sentence
C14_Witness ==
    \E p \in Procs :
        /\ pc[p] = "idle"
        /\ ret[p].err = errAsyncTimeout
        /\ Len(Call(cur[p]).Re) > 0
        /\ ~Call(cur[p]).closed



(***************************************************************************)
(* C18: a command abandoned by its caller's timeout                        *)
(***************************************************************************)
\* the entry of call c is in the table
Registered(c) ==
    /\ c \in 1 .. Len(calls)
    /\ tags # Nil
    /\ Call(c).tag \in DOMAIN tags
    /\ tags[Call(c).tag] = c

\* the caller of call c has returned the async-wait-timeout error
Abandoned(c) ==
    /\ c \in 1 .. Len(calls)
    /\ \E p \in Procs : /\ cur[p] = c
                        /\ pc[p] = "idle"
                        /\ ret[p].err = errAsyncTimeout

\* the loop can take its next step whatever the callers do
LoopFree ==
    /\ loopPc = "process" => ENABLED LoopProcess
    /\ loopPc = "close" => ENABLED LoopClose
    /\ (loopPc \in { "lookup", "delete" } /\ mu = NoProc)
          => ENABLED (LoopLookup \/ LoopDelete)

AbandonStep ==
    /\ \A p \in Procs :
          (LeavesWait(p) /\ ret'[p].err = errAsyncTimeout)
             => /\ tags' = tags
                /\ loopPc' = loopPc
                /\ calls' = calls
    /\ \A c \in 1 .. Len(calls) :
          (Registered(c) /\ ~Registered(c)')
             => /\ loopPc = "delete"
                /\ loopR = c
                /\ Call(c).Done # Nil

ReadFailed == loopPc = "closeTags"

\* the caller of call c has returned the reply with the loop's read error
ReturnedTransportError(c) ==
    /\ c \in 1 .. Len(calls)
    /\ Call(c).closed
    /\ \E p \in Procs : /\ cur[p] = c
                        /\ pc[p] = "idle"
                        /\ ret[p] = [reply |-> c, err |-> LoopErr]

Outcome(c) == << Call(c).Re, Call(c).Done, Call(c).err >>

\* the entry of a closed channel holds a terminal sentence or the error of
\* the loop's read
Final(c) == Call(c).Done # Nil \/ Call(c).err = LoopErr

\* a caller that has returned the reply of its asynchronous command saw the
\* channel closed and holds the entry's error
ObservedClosed ==
    \A p \in Procs :
        (async /\ pc[p] = "idle" /\ ret[p].reply # 0)
           => /\ ret[p].reply = cur[p]
              /\ Call(cur[p]).closed
              /\ ret[p].err = Call(cur[p]).err

FinalStep ==
    \A c \in 1 .. Len(calls) :
        /\ Call(c).closed => (Call(c)'.closed /\ Outcome(c)' = Outcome(c))
        /\ (~Call(c).closed /\ Call(c)'.closed) => Final(c)'

\* C16: in asynchronous mode the reply and the error of an entry are
\* written when its channel is closed and never change afterwards, and a
\* caller that returns after seeing the channel closed returns them.
C16_Final ==
    /\ [](ObservedClosed /\ \A c \in 1 .. Len(calls) : Call(c).closed => Final(c))
    /\ [][FinalStep]_vars

\* a caller has returned a reply with sentences and its terminal sentence,
\* and another the error of the loop's teardown
C16_Witness ==
    /\ async
    /\ \E p \in Procs :
          /\ pc[p] = "idle" /\ ret[p].reply # 0
          /\ Len(Call(ret[p].reply).Re) > 0
          /\ Call(ret[p].reply).Done # Nil
          /\ ret[p].err = NoErr
    /\ \E p \in Procs :
          /\ pc[p] = "idle" /\ ret[p].reply # 0
          /\ ret[p].err = LoopErr



(***************************************************************************)
(* C17: the read deadlines of ReadSentence                                 *)
(***************************************************************************)
\* C17: in ReadSentence(false) only the read of the very first length byte
\* of the sentence has no deadline; every later read of the sentence, the
\* first length byte of a later word included, has the deadline armed.
C17_AsStated ==
    ~rdFlag => \A i \in 1 .. Len(rdReads) : rdReads[i].armed <=> i > 1



(***************************************************************************)
(* C19: the lookup comes after the insertion                               *)
(***************************************************************************)
\* sentence sen answers call c
Answers(sen, c) == Call(c).tag # << >> /\ sen.Tag = Call(c).tag

\* the caller of call c holds c.mu between its flush and its insertion
Inserting(c) ==
    /\ mu = Call(c).proc
    /\ pc[mu] = "asyncReg"
    /\ cur[mu] = c

\* the sentences the device has sent that the loop has not looked up yet
Unlooked == Range(rx) \cup (IF loopPc = "lookup" THEN { loopSen } ELSE { })

\* while a sentence that answers a command waits for its lookup, the entry
\* is in the table or its caller holds the lock to insert it, unless the
\* loop has ended
InsertedFirst ==
    \A c \in 1 .. Len(calls) :
        \A sen \in Unlooked :
            Answers(sen, c) => Registered(c) \/ Inserting(c) \/ loopPc = "ended"

\* the lookup of a sentence that answers a command finds its entry
LookupStep ==
    \A c \in 1 .. Len(calls) :
        (loopPc = "lookup" /\ loopPc' # "lookup" /\ Answers(loopSen, c))
           => /\ Registered(c)
              /\ loopPc' = "process"
              /\ loopR' = c

\* C19: no reply sentence is lost because its tag was not registered yet:
\* under every interleaving of the callers and the loop, the lookup of a
\* sentence that answers an asynchronous command comes after the insertion of
\* the command's entry and finds it.
C19_LookupAfterInsert == [](InsertedFirst) /\ [][LookupStep]_vars

\* the device has answered while the caller still held the lock ahead of
\* its insertion, and the loop waits with the sentence for the lock
C19_Witness ==
    \E c \in 1 .. Len(calls) :
        /\ Inserting(c)
        /\ ~Registered(c)
        /\ loopPc = "lookup"
        /\ Answers(loopSen, c)



(***************************************************************************)
(* C20: the table of pending commands                                      *)
(***************************************************************************)
\* the tags in the table
TableTags == IF tags = Nil THEN { } ELSE DOMAIN tags

\* the loop is through with the terminal sentence of call c
TerminalProcessed(c) == Call(c).Done # Nil /\ ~(loopPc = "delete" /\ loopR = c)

\* the tags of the commands that were registered and whose terminal
\* sentence the loop has not processed
PendingTags ==
    { Call(c).tag : c \in { d \in 1 .. Len(calls) :
                              Call(d).reg /\ ~TerminalProcessed(d) } }

\* the removal of the entry of call c at its terminal sentence
RemovedAtTerminal(c) == loopPc = "delete" /\ loopR = c /\ Call(c).Done # Nil

\* an entry goes in once, for a command whose sentence was flushed
InsertStep ==
    \A c \in 1 .. Len(calls) :
        (~Registered(c) /\ Registered(c)')
           => /\ ~Call(c).reg
              /\ Call(c).flushed
              /\ pc[Call(c).proc] = "asyncReg" /\ cur[Call(c).proc] = c

\* a sentence whose tag has no entry changes no entry
StrayStep ==
    (loopPc = "lookup" /\ loopPc' # "lookup"
        /\ (tags = Nil \/ loopSen.Tag \notin DOMAIN tags))
       => tags' = tags /\ calls' = calls /\ loopPc' = "read"

\* a command whose write failed or whose registration was refused leaves no
\* entry
RefusedStep ==
    \A p \in Procs :
        (pc[p] \in { "asyncEnd", "asyncReg" } /\ pc'[p] = "idle")
           => /\ ret'[p].reply = 0 /\ ret'[p].err # NoErr
              /\ tags' = tags
              /\ ~Call(cur[p]).reg'
              /\ ~Registered(cur[p])'

TableStepAsStated ==
    /\ \A c \in 1 .. Len(calls) :
          (Registered(c) /\ ~Registered(c)') => RemovedAtTerminal(c)
    /\ InsertStep /\ StrayStep /\ RefusedStep

TableStep ==
    /\ \A c \in 1 .. Len(calls) :
          (Registered(c) /\ ~Registered(c)')
             => RemovedAtTerminal(c) \/ (loopPc = "closeTags" /\ tags' = Nil)
    /\ InsertStep /\ StrayStep /\ RefusedStep

\* C20 as stated: in every reachable state the table holds exactly the tags
\* of the commands registered and not yet through their terminal sentence,
\* and an entry is removed at its terminal sentence only.
C20_AsStated == [](TableTags = PendingTags) /\ [][TableStepAsStated]_vars

\* C20: until the loop's teardown clears it, the table holds exactly the
\* tags of the commands that were registered and whose terminal sentence the
\* loop has not processed, and from the teardown on it holds no entry; an
\* entry is removed at its terminal sentence or by the teardown and is never
\* inserted again; a sentence whose tag has no entry changes no entry; a
\* command whose write failed or whose registration was refused leaves no
\* entry.
C20_Table ==
    /\ [](tags # Nil => TableTags = PendingTags)
    /\ [](tags = Nil => loopPc = "ended")
    /\ [][TableStep]_vars

\* the loop has looked up a sentence of a tag without an entry, then its
\* read has failed and the teardown has cleared the table with a registered
\* command still without its terminal sentence
C20_Witness ==
    /\ loopPc = "ended"
    /\ tags = Nil
    /\ loopSen # Nil /\ loopSen.Tag = StrayTag
    /\ \E c \in 1 .. Len(calls) : Call(c).reg /\ Call(c).Done = Nil



(***************************************************************************)
(* C21: the writer's lock and c.mu                                         *)
(***************************************************************************)
\* where a caller is between BeginSentence and EndSentence
Writing == { "words", "asyncTag", "asyncLock", "asyncEnd", "syncEnd" }

\* the writer's lock is held by the callers inside a sentence, and by
\* nobody else; a caller that holds c.mu took the writer's lock first
LocksHeld ==
    /\ wlock \in Procs \cup { NoProc }
    /\ \A p \in Procs : wlock = p <=> pc[p] \in Writing
    /\ mu \in Procs => pc[mu] \in { "asyncEnd", "asyncReg" }
    /\ \A k \in Closers : mu = k <=> kpc[k] = "locked"

\* the holder of c.mu can take its next step
MuHolderRuns ==
    \/ mu \in Procs /\ ENABLED (endCommandAsyncEnd(mu) \/ endCommandAsyncRegister(mu))
    \/ mu \in Closers /\ ENABLED CloseFlag(mu)

\* the holder of the writer's lock can take its next step, or waits for
\* c.mu whose holder can
WriterHolderRuns ==
    \/ ENABLED (WriteWords(wlock) \/ endCommandAsyncTag(wlock)
                  \/ endCommandAsyncLock(wlock) \/ endCommandAsyncEnd(wlock)
                  \/ endCommandSync(wlock))
    \/ pc[wlock] = "asyncLock" /\ mu # NoProc /\ MuHolderRuns

\* no caller waits for a lock whose holder cannot go on
NoLockDeadlock ==
    /\ wlock # NoProc => WriterHolderRuns
    /\ mu # NoProc => MuHolderRuns

\* a sentence is ended by EndSentence, which gives the writer's lock back,
\* and the lock is given back in no other step
EndsOnceStep ==
    \A p \in Procs :
        /\ (pc[p] \in Writing /\ pc'[p] \notin Writing)
              => /\ pc[p] \in { "asyncEnd", "syncEnd" }
                 /\ wlock = p /\ wlock' = NoProc
        /\ (wlock = p /\ wlock' # p) => pc'[p] \notin Writing
        /\ (wlock # p /\ wlock' = p) => (pc[p] = "begin" /\ wlock = NoProc)

\* C21: a call that begins a sentence ends it once on every path, before
\* it returns or waits, so the writer's lock is held only inside a sentence;
\* the locks are taken in the order writer, c.mu, and under every
\* interleaving of callers, Close and the loop the holder of each lock can go
\* on: the callers are never deadlocked on the two locks.
C21_Locks == [](LocksHeld /\ NoLockDeadlock) /\ [][EndsOnceStep]_vars

\* a caller waits for the writer's lock, whose holder waits for c.mu, which
\* a Close holds, after the writer has failed
C21_Witness ==
    \E p, q \in Procs :
        /\ pc[p] = "begin"
        /\ pc[q] = "asyncLock" /\ wlock = q
        /\ mu \in Closers
        /\ werr # NoErr



(***************************************************************************)
(* C22: Login and a reply without a terminal sentence                      *)
(***************************************************************************)
\* the first login command returned no error and a reply whose Done is nil
FirstNilDone ==
    /\ Len(calls) >= 1
    /\ lgPc = "done"
    /\ Call(1).Done = Nil
    /\ Call(1).err = NoErr

=============================================================================
